---- MODULE Spec2Model ----
(***************************************************************************)
(* Capture-and-render pipeline of terminal-webcam.                         *)
(*                                                                         *)
(*   FFmpegCapture   (src/src/webcam/ffmpeg-capture.js)  hardware source    *)
(*   WebcamCapture   (src/src/webcam/capture.js 1-204)   software source    *)
(*   HybridCapture   (src/src/webcam/capture.js 206-355) supervisor         *)
(*   TerminalRenderer(src/src/renderer/terminal.js)      render scheduler   *)
(*   TerminalWebcamApp (src/unnamed/part_000)            application        *)
(*                                                                         *)
(* Node runs every handler to completion on one thread, so one action is   *)
(* one handler (or one synchronous stretch of an async function between    *)
(* two awaits).  The environment (subprocesses, the still-image driver,    *)
(* timers, the terminal) is nondeterministic.                              *)
(***************************************************************************)
EXTENDS Integers, Sequences, FiniteSets, TLC

----------------------------------------------------------------------------
(* Bounds of the model *)

\* video-box widths and heights range over 1..MaxDim
MaxDim == 2
\* number of ffmpeg streaming subprocesses spawned in one run
MaxProcs == 2
\* ticks of the renderer in one behaviour of SpecPipeline
MaxTicks == 3
\* samples tracked by one behaviour of SpecPerf
MaxSamples == 205
\* the renderer reports every PerfPeriod samples
PerfPeriod == 100
\* longest stdout chunk delivered in one 'data' event
MaxChunk == 2
\* SpecDemux: longest chunk fed to _handleFrameData, and bytes fed in one run
MaxFeed == 6
MaxFed == 12
\* conversions awaiting the image library are counted up to MaxInflight,
\* which stands for "MaxInflight or more"
MaxInflight == 2
\* _runCaptureLoop activations that may exist at the same time
MaxLoops == 2
\* sizes of the JPEG files the still-image driver writes range over 1..MaxJpeg
MaxJpeg == 2
\* captureFrame() calls waiting on an await at one time
MaxShots == 2
\* ids of the renderer's setTimeout timers range over 1..MaxTimers
MaxTimers == 2

(* Program constants *)

\* FFmpegCapture / HybridCapture constructor defaults
DefaultWidth == 600
DefaultHeight == 150
\* resolution of the default configuration: createWebcamConfig() with a
\* 100x25 terminal
ConfigWidth == 600
ConfigHeight == 150

Dims == 1..MaxDim
Pids == 1..(MaxProcs + 1)

\* a nullable reference to a Buffer: <<>> is null, <<b>> refers to buffer b
Null == << >>
Some(b) == << b >>

VARIABLES
    driver,     \* who calls the capture objects: the application, or a client
                \* of HybridCapture / FFmpegCapture / WebcamCapture alone
    ff,         \* the FFmpegCapture object
    procs,      \* the streaming subprocesses spawned so far, by pid
    hung,       \* the event loop is inside a loop that never ends
    wc,         \* the WebcamCapture object
    loops,      \* the activations of WebcamCapture._runCaptureLoop and of
                \* captureFrame that are waiting on an await
    hc,         \* the HybridCapture object
    tr,         \* the TerminalRenderer object
    inflight,   \* number of conversions awaiting the image library
                \* (MaxInflight: that many or more)
    app,        \* the TerminalWebcamApp object; for a client of HybridCapture
                \* alone, where that client stands
    demux,      \* SpecDemux only: bytes fed and frames published
    conv,       \* SpecConvert only: the last call of the ImageConverter or of
                \* config.js, its arguments and what it returned
    timers,     \* the pending setTimeout timers of the renderer, by id
    term,       \* the terminal: its video-box size and whether a 'resize'
                \* event is on its way
    perf,       \* SpecPerf only: the performance accumulators of the renderer
                \* and its logging switch
    pipe,       \* SpecPipeline only: the ramp of the converter, the
                \* conversions awaiting the image library and the grids
                \* delivered to onFrame, each with the tick it belongs to
    op          \* the handler that ran last, with its arguments

vars == << driver, ff, procs, hung, wc, loops, hc, tr, inflight, app,
           demux, conv, timers, term, perf, pipe, op >>

\* the record kept in op: the handler, its arguments, whether it invoked the
\* renderer's onFrame and onStats callbacks, for updateResolution whether it
\* was called with the dimensions the object already had, and whether the
\* call threw to its caller
Op(name, a, b) ==
    [name |-> name, a |-> a, b |-> b, onFrame |-> FALSE, onStats |-> FALSE,
     same |-> FALSE, ticks |-> 0, video |-> FALSE, stats |-> FALSE,
     threw |-> FALSE]

\* the record of updateResolution(w, h) called on an object of size cw x ch
OpUpdate(name, w, h, cw, ch) ==
    [Op(name, w, h) EXCEPT !.same = (w = cw /\ h = ch)]

----------------------------------------------------------------------------
(* FFmpegCapture: src/src/webcam/ffmpeg-capture.js *)

\* Subprocess p is "none" (not spawned yet), "alive", "killed" (SIGTERM sent,
\* 'close' not yet emitted), "failed" (the spawn failed, 'error' not yet
\* emitted) or "gone" (its last event has been handled).  Pids are given out
\* in order.
ProcStatus == {"none", "alive", "killed", "failed", "gone"}

\* the outcomes of spawn('ffmpeg', args)
SpawnOutcome == {"alive", "failed"}

\* constructor
FFmpegCaptureNew ==
    [ffmpeg |-> 0, isRunning |-> FALSE,
     width |-> DefaultWidth, height |-> DefaultHeight, bytesPerFrame |-> 0,
     currentBuffer |-> Null, incompleteBuffer |-> << >>]

\* the hardware source together with its subprocesses
HW == [ff |-> ff, procs |-> procs]

\* pid of the next subprocess
NextPid(ps) == Cardinality({p \in Pids : ps[p] # "none"}) + 1

\* initialize(width, height), up to the await of the availability probe
FFInitialize(f, w, h) ==
    [f EXCEPT !.width = w, !.height = h, !.bytesPerFrame = w * h]

\* start(): spawn unless already running
FFStart(s, outcome) ==
    IF s.ff.isRunning
    THEN s
    ELSE LET pid == NextPid(s.procs)
         IN  [ff |-> [s.ff EXCEPT !.ffmpeg = pid, !.isRunning = TRUE],
              procs |-> [s.procs EXCEPT ![pid] = outcome]]

\* the number of subprocesses a behaviour may spawn: one more for the client
\* that calls the methods of an FFmpegCapture directly
ProcLimit == IF driver = "ffmpeg" THEN MaxProcs + 1 ELSE MaxProcs

\* start() can be modelled while a pid is left for the subprocess it spawns
CanStart(s) == s.ff.isRunning \/ NextPid(s.procs) <= ProcLimit

\* ffmpeg.kill('SIGTERM')
Kill(ps, pid) ==
    [ps EXCEPT ![pid] = IF @ = "alive" THEN "killed" ELSE @]

\* stop()
FFStop(s) ==
    IF ~s.ff.isRunning
    THEN s
    ELSE [ff |-> [s.ff EXCEPT !.ffmpeg = 0, !.isRunning = FALSE,
                              !.currentBuffer = Null,
                              !.incompleteBuffer = << >>],
          procs |-> IF s.ff.ffmpeg # 0 THEN Kill(s.procs, s.ff.ffmpeg)
                                       ELSE s.procs]

\* updateResolution without its early return: it always restarts
FFRestart(s, w, h, outcome) ==
    LET t == FFStop(s)
    IN  FFStart([t EXCEPT !.ff.width = w, !.ff.height = h,
                          !.ff.bytesPerFrame = w * h], outcome)

\* updateResolution(width, height)
FFUpdateResolution(s, w, h, outcome) ==
    IF w = s.ff.width /\ h = s.ff.height
    THEN s
    ELSE LET t == FFStop(s)
         IN  FFStart([t EXCEPT !.ff.width = w, !.ff.height = h,
                               !.ff.bytesPerFrame = w * h], outcome)

\* updateResolution spawns exactly when the dimensions change
CanUpdateResolution(s, w, h) ==
    (w = s.ff.width /\ h = s.ff.height) \/ NextPid(s.procs) <= ProcLimit

\* _handleFrameData with `if` in place of `while`: at most one frame a chunk
ExtractOneFrame(f, n) ==
    IF Len(f.incompleteBuffer) >= f.bytesPerFrame
    THEN [ff |-> [f EXCEPT !.currentBuffer =
                               Some(SubSeq(f.incompleteBuffer, 1, f.bytesPerFrame)),
                           !.incompleteBuffer =
                               SubSeq(f.incompleteBuffer, f.bytesPerFrame + 1,
                                      Len(f.incompleteBuffer))],
          frames |-> n + 1]
    ELSE [ff |-> f, frames |-> n]

\* the while loop of _handleFrameData; n counts the frames it publishes
RECURSIVE ExtractFrames(_, _)
ExtractFrames(f, n) ==
    IF Len(f.incompleteBuffer) >= f.bytesPerFrame
    THEN ExtractFrames(
             [f EXCEPT !.currentBuffer =
                           Some(SubSeq(f.incompleteBuffer, 1, f.bytesPerFrame)),
                       !.incompleteBuffer =
                           SubSeq(f.incompleteBuffer, f.bytesPerFrame + 1,
                                  Len(f.incompleteBuffer))],
             n + 1)
    ELSE [ff |-> f, frames |-> n]

\* _handleFrameData that drops the carry-over instead of appending to it
HandleChunkAlone(f, chunk) ==
    ExtractFrames([f EXCEPT !.incompleteBuffer = chunk], 0)

\* _handleFrameData(chunk), for bytesPerFrame > 0
HandleFrameData(f, chunk) ==
    ExtractFrames([f EXCEPT !.incompleteBuffer = @ \o chunk], 0)

\* with bytesPerFrame = 0 the loop condition length >= 0 never fails: every
\* iteration publishes an empty slice and keeps the whole carry-over
HandleFrameDataForever(f, chunk) ==
    [f EXCEPT !.incompleteBuffer = @ \o chunk, !.currentBuffer = Some(<< >>)]

\* getLatestFrame()
FFGetLatestFrame(f) == f.currentBuffer

\* a chunk of n bytes of raw pixels; the handlers never look at a pixel's
\* value, and every pixel is modelled by 0
Chunk(n) == [i \in 1..n |-> 0]

----------------------------------------------------------------------------
(* Events of the streaming subprocesses; the handlers are those start() *)
(* registers on the subprocess it spawns.                                *)

\* ffmpeg.stdout.on('data'): a subprocess delivers output until it has closed;
\* op.a is the subprocess the chunk comes from, op.b the number of frames
\* the handler published
Data(p, n) ==
    /\ ~hung
    /\ procs[p] \in {"alive", "killed"}
    /\ IF ff.bytesPerFrame > 0
       THEN /\ ff' = HandleFrameData(ff, Chunk(n)).ff
            /\ hung' = hung
            /\ op' = Op("data", p, HandleFrameData(ff, Chunk(n)).frames)
       ELSE /\ ff' = HandleFrameDataForever(ff, Chunk(n))
            /\ hung' = TRUE
            /\ op' = Op("data", p, 0)
    /\ UNCHANGED << driver, pipe, perf, procs, wc, loops, hc, tr, inflight, app,
                    demux, conv, timers, term >>

\* ffmpeg.on('close') that starts a new subprocess when a pid is left
CloseRestarts(p) ==
    /\ ~hung
    /\ procs[p] \in {"alive", "killed"}
    /\ IF NextPid(procs) <= MaxProcs
       THEN /\ procs' = [procs EXCEPT ![p] = "gone", ![NextPid(procs)] = "alive"]
            /\ ff' = [ff EXCEPT !.ffmpeg = NextPid(procs), !.isRunning = TRUE]
       ELSE /\ procs' = [procs EXCEPT ![p] = "gone"]
            /\ ff' = [ff EXCEPT !.isRunning = FALSE]
    /\ op' = Op("close", 0, 0)
    /\ UNCHANGED << driver, pipe, perf, hung, wc, loops, hc, tr, inflight, app,
                    demux, conv, timers, term >>

\* ffmpeg.on('close'): the subprocess has ended and its output is drained
Close(p) ==
    /\ ~hung
    /\ procs[p] \in {"alive", "killed"}
    /\ procs' = [procs EXCEPT ![p] = "gone"]
    /\ ff' = [ff EXCEPT !.isRunning = FALSE]
    /\ op' = Op("close", 0, 0)
    /\ UNCHANGED << driver, pipe, perf, hung, wc, loops, hc, tr, inflight, app,
                    demux, conv, timers, term >>

\* ffmpeg.on('error'): the spawn failed.  ('close' follows it and makes the
\* same assignment again.)
Error(p) ==
    /\ ~hung
    /\ procs[p] = "failed"
    /\ procs' = [procs EXCEPT ![p] = "gone"]
    /\ ff' = [ff EXCEPT !.isRunning = FALSE]
    /\ op' = Op("error", 0, 0)
    /\ UNCHANGED << driver, pipe, perf, hung, wc, loops, hc, tr, inflight, app,
                    demux, conv, timers, term >>

----------------------------------------------------------------------------
(* A client that drives an FFmpegCapture directly through its methods *)

\* initialize(width, height), called once
HwInitialize(w, h) ==
    /\ driver = "ffmpeg" /\ ~hung
    /\ ff.bytesPerFrame = 0
    /\ ff' = FFInitialize(ff, w, h)
    /\ op' = Op("ff.initialize", 0, 0)
    /\ UNCHANGED << driver, pipe, perf, procs, hung, wc, loops, hc, tr, inflight, app,
                    demux, conv, timers, term >>

\* initialize(width, height) of the object the demultiplexer runs on
DemuxInitialize(w, h) ==
    /\ driver = "demux"
    /\ ff.bytesPerFrame = 0
    /\ ff' = FFInitialize(ff, w, h)
    /\ op' = Op("ff.initialize", 0, 0)
    /\ UNCHANGED << driver, pipe, perf, procs, hung, wc, loops, hc, tr, inflight, app,
                    demux, conv, timers, term >>

HwStart(outcome) ==
    /\ driver = "ffmpeg" /\ ~hung
    /\ CanStart(HW)
    /\ ff' = FFStart(HW, outcome).ff
    /\ procs' = FFStart(HW, outcome).procs
    /\ op' = Op("ff.start", 0, 0)
    /\ UNCHANGED << driver, pipe, perf, hung, wc, loops, hc, tr, inflight, app,
                    demux, conv, timers, term >>

\* stop(), also what cleanup() does
HwStop ==
    /\ driver = "ffmpeg" /\ ~hung
    /\ ff' = FFStop(HW).ff
    /\ procs' = FFStop(HW).procs
    /\ op' = Op("ff.stop", 0, 0)
    /\ UNCHANGED << driver, pipe, perf, hung, wc, loops, hc, tr, inflight, app,
                    demux, conv, timers, term >>

HwUpdateResolution(w, h, outcome) ==
    /\ driver = "ffmpeg" /\ ~hung
    /\ CanUpdateResolution(HW, w, h)
    /\ ff' = FFUpdateResolution(HW, w, h, outcome).ff
    /\ procs' = FFUpdateResolution(HW, w, h, outcome).procs
    /\ op' = OpUpdate("ff.updateResolution", w, h, ff.width, ff.height)
    /\ UNCHANGED << driver, pipe, perf, hung, wc, loops, hc, tr, inflight, app,
                    demux, conv, timers, term >>

----------------------------------------------------------------------------
(* WebcamCapture: src/src/webcam/capture.js, lines 1-204 *)

\* the resolution of the default configuration (createWebcamConfig())
DefaultConfig == [width |-> ConfigWidth, height |-> ConfigHeight]

\* constructor; webcam is the still-image driver instance, modelled by the
\* resolution it was created with
WebcamCaptureNew ==
    [webcam |-> Null, isInitialized |-> FALSE, captureInProgress |-> FALSE,
     continuousMode |-> FALSE, captureLoopRunning |-> FALSE,
     lastFramePath |-> Null, lastFrameBuffer |-> Null,
     config |-> DefaultConfig]

\* initialize(width = null, height = null); a null argument is modelled by 0
\* (both are falsy in `width && height`)
WCInitialize(c, w, h) ==
    IF c.isInitialized
    THEN c
    ELSE LET cfg == IF w # 0 /\ h # 0 THEN [width |-> w, height |-> h]
                                      ELSE c.config
         IN  [c EXCEPT !.config = cfg, !.webcam = Some(cfg),
                       !.isInitialized = TRUE]

\* updateResolution(width, height)
WCUpdateResolution(c, w, h) ==
    IF w = c.config.width /\ h = c.config.height
    THEN c
    ELSE WCInitialize([c EXCEPT !.config = [width |-> w, height |-> h],
                                !.isInitialized = FALSE], 0, 0)

\* stopContinuousCapture()
WCStopContinuousCapture(c) ==
    [c EXCEPT !.continuousMode = FALSE, !.captureLoopRunning = FALSE]

\* An activation of _runCaptureLoop or captureFrame: pc is the await it waits
\* on; stopped tells that stopContinuousCapture() has been called since the
\* activation began, stale that updateResolution has changed the resolution
\* since the activation issued the request it waits for.  stopped and stale
\* record history: the program keeps neither.
Activation(at) == [pc |-> at, stopped |-> FALSE, stale |-> FALSE]

\* the awaits of _runCaptureLoop; those of captureFrame are "shot" (the
\* driver callback) and "shotRead" (fs.readFile)
LoopPcs == {"capture", "read", "yield"}

\* the activations marked by stopContinuousCapture()
Stopped(ls) ==
    [i \in 1..Len(ls) |->
        IF ls[i].pc \in LoopPcs THEN [ls[i] EXCEPT !.stopped = TRUE] ELSE ls[i]]

\* the activations marked by updateResolution(w, h) on object c
Stale(ls, c, w, h) ==
    IF w = c.config.width /\ h = c.config.height
    THEN ls
    ELSE [i \in 1..Len(ls) |->
             IF ls[i].pc \in {"capture", "read"}
             THEN [ls[i] EXCEPT !.stale = TRUE] ELSE ls[i]]

\* number of acquisitions outstanding: requested from the still-image driver
\* and not yet through catch/finally
Outstanding(ls) ==
    Cardinality({i \in 1..Len(ls) :
                    ls[i].pc \in {"capture", "read", "shot", "shotRead"}})

\* number of _runCaptureLoop activations
LoopCount(ls) == Cardinality({i \in 1..Len(ls) : ls[i].pc \in LoopPcs})

\* One pass of _runCaptureLoop from the while test to its next await.  The
\* result is the object and where the activation waits: "capture" (the driver
\* callback), "read" (fs.readFile), "yield" (setImmediate) or "exit" (the
\* loop returned).  A request on a null driver
\* throws inside the promise executor; catch and finally run before anything
\* else does, so the activation goes on to setImmediate.
\* One pass of the loop that does not look at captureInProgress
LoopTopUnguarded(c) ==
    IF ~c.continuousMode
    THEN [wc |-> [c EXCEPT !.captureLoopRunning = FALSE],
          at |-> "exit"]
    ELSE IF c.webcam = Null
    THEN [wc |-> c, at |-> "yield"]
    ELSE [wc |-> [c EXCEPT !.captureInProgress = TRUE],
          at |-> "capture"]

LoopTop(c) ==
    IF ~c.continuousMode
    THEN [wc |-> [c EXCEPT !.captureLoopRunning = FALSE],
          at |-> "exit"]
    ELSE IF c.captureInProgress \/ c.webcam = Null
    THEN [wc |-> c, at |-> "yield"]
    ELSE [wc |-> [c EXCEPT !.captureInProgress = TRUE],
          at |-> "capture"]

\* loops with activation i replaced by its new position, or dropped on exit
Moved(ls, i, at) ==
    IF at = "exit"
    THEN SubSeq(ls, 1, i - 1) \o SubSeq(ls, i + 1, Len(ls))
    ELSE [ls EXCEPT ![i].pc = at, ![i].stale = FALSE]

\* startContinuousCapture(): the object and the activations after the call
WCStartContinuousCapture(s) ==
    IF s.wc.captureLoopRunning
    THEN s
    ELSE LET r == LoopTop([s.wc EXCEPT !.continuousMode = TRUE,
                                       !.captureLoopRunning = TRUE])
         IN  [wc |-> r.wc, loops |-> Append(s.loops, Activation(r.at))]

\* the software source together with its loop activations
SW == [wc |-> wc, loops |-> loops]

\* startContinuousCapture() can be modelled while an activation is left for
\* the loop it starts
CanStartContinuous(s) ==
    s.wc.captureLoopRunning \/ LoopCount(s.loops) < MaxLoops

\* getLatestFrame()
WCGetLatestFrame(c) == c.lastFrameBuffer

\* the bytes of a JPEG file of n bytes; every byte of an encoded image is
\* modelled by -1
Jpeg(n) == [i \in 1..n |-> 0 - 1]

\* catch and finally of a failed acquisition, that clear the frame as well
AcquisitionFailedClearsFrame(c) ==
    [c EXCEPT !.captureInProgress = FALSE, !.lastFrameBuffer = Null]

\* catch and finally of _runCaptureLoop and captureFrame after the driver or
\* fs.readFile has failed
AcquisitionFailed(c) == [c EXCEPT !.captureInProgress = FALSE]

\* the driver callback of activation i: resolve, then fs.readFile is awaited;
\* reject, then catch and finally run and setImmediate is awaited.  op.a
\* tells whether the driver succeeded.
CaptureDone(i, ok) ==
    /\ ~hung
    /\ i \in 1..Len(loops)
    /\ loops[i].pc = "capture"
    /\ IF ok
       THEN /\ loops' = [loops EXCEPT ![i].pc = "read"]
            /\ wc' = wc
       ELSE /\ loops' = Moved(loops, i, "yield")
            /\ wc' = AcquisitionFailed(wc)
    /\ op' = Op("captureDone", IF ok THEN 1 ELSE 0, 0)
    /\ UNCHANGED << driver, pipe, perf, ff, procs, hung, hc, tr, inflight, app,
                    demux, conv, timers, term >>

\* fs.readFile of activation i returns n bytes (n = 0: it fails); op.a is n,
\* op.b tells whether the acquisition was stale
ReadDone(i, n) ==
    /\ ~hung
    /\ i \in 1..Len(loops)
    /\ loops[i].pc = "read"
    /\ loops' = Moved(loops, i, "yield")
    /\ wc' = IF n > 0
             THEN [wc EXCEPT !.lastFrameBuffer = Some(Jpeg(n)),
                             !.lastFramePath = Some("tmpFile"),
                             !.captureInProgress = FALSE]
             ELSE AcquisitionFailed(wc)
    /\ op' = Op("readDone", n, IF loops[i].stale THEN 1 ELSE 0)
    /\ UNCHANGED << driver, pipe, perf, ff, procs, hung, hc, tr, inflight, app,
                    demux, conv, timers, term >>

\* setImmediate of activation i: the next pass of the loop.  op.a tells
\* whether the activation had been stopped, op.b what the pass did: 0 the
\* loop returned, 1 it issued no request, 2 it issued one.
LoopYield(i) ==
    /\ ~hung
    /\ i \in 1..Len(loops)
    /\ loops[i].pc = "yield"
    /\ wc' = LoopTop(wc).wc
    /\ loops' = Moved(loops, i, LoopTop(wc).at)
    /\ op' = Op("loopYield", IF loops[i].stopped THEN 1 ELSE 0,
                CASE LoopTop(wc).at = "exit" -> 0
                  [] LoopTop(wc).at = "yield" -> 1
                  [] LoopTop(wc).at = "capture" -> 2)
    /\ UNCHANGED << driver, pipe, perf, ff, procs, hung, hc, tr, inflight, app,
                    demux, conv, timers, term >>

----------------------------------------------------------------------------
(* A client that drives a WebcamCapture directly through its methods *)

SwInitialize(w, h) ==
    /\ driver = "webcam" /\ ~hung
    /\ wc' = WCInitialize(wc, w, h)
    /\ op' = Op("wc.initialize", 0, 0)
    /\ UNCHANGED << driver, pipe, perf, ff, procs, hung, loops, hc, tr, inflight, app,
                    demux, conv, timers, term >>

SwUpdateResolution(w, h) ==
    /\ driver = "webcam" /\ ~hung
    /\ wc' = WCUpdateResolution(wc, w, h)
    /\ loops' = Stale(loops, wc, w, h)
    /\ op' = OpUpdate("wc.updateResolution", w, h,
                      wc.config.width, wc.config.height)
    /\ UNCHANGED << driver, pipe, perf, ff, procs, hung, hc, tr, inflight, app,
                    demux, conv, timers, term >>

SwStartContinuousCapture ==
    /\ driver = "webcam" /\ ~hung
    /\ CanStartContinuous(SW)
    /\ wc' = WCStartContinuousCapture(SW).wc
    /\ loops' = WCStartContinuousCapture(SW).loops
    /\ op' = Op("wc.startContinuousCapture", 0, 0)
    /\ UNCHANGED << driver, pipe, perf, ff, procs, hung, hc, tr, inflight, app,
                    demux, conv, timers, term >>

\* number of captureFrame() activations
ShotCount(ls) ==
    Cardinality({i \in 1..Len(ls) : ls[i].pc \in {"shot", "shotRead"}})

\* captureFrame() up to its first await or its return; op.a is what it did:
\* 0 it threw, 1 it returned the latest frame, 2 it returned null because an
\* acquisition was in progress, 3 it issued a request to the driver
SwCaptureFrame ==
    /\ driver = "webcam" /\ ~hung
    /\ IF ~wc.isInitialized
       THEN /\ op' = Op("wc.captureFrame", 0, 0)
            /\ UNCHANGED << wc, loops >>
       ELSE IF wc.continuousMode
       THEN /\ op' = Op("wc.captureFrame", 1, 0)
            /\ UNCHANGED << wc, loops >>
       ELSE IF wc.captureInProgress
       THEN /\ op' = Op("wc.captureFrame", 2, 0)
            /\ UNCHANGED << wc, loops >>
       ELSE /\ ShotCount(loops) < MaxShots
            /\ wc' = [wc EXCEPT !.captureInProgress = TRUE]
            /\ loops' = Append(loops, Activation("shot"))
            /\ op' = Op("wc.captureFrame", 3, 0)
    /\ UNCHANGED << driver, pipe, perf, ff, procs, hung, hc, tr, inflight, app,
                    demux, conv, timers, term >>

\* the driver callback of captureFrame activation i: resolve, then
\* fs.readFile is awaited; reject, then catch and finally run and the call
\* returns null
ShotDone(i, ok) ==
    /\ ~hung
    /\ i \in 1..Len(loops)
    /\ loops[i].pc = "shot"
    /\ IF ok
       THEN /\ loops' = [loops EXCEPT ![i].pc = "shotRead"]
            /\ wc' = wc
       ELSE /\ loops' = Moved(loops, i, "exit")
            /\ wc' = AcquisitionFailed(wc)
    /\ op' = Op("shotDone", IF ok THEN 1 ELSE 0, 0)
    /\ UNCHANGED << driver, pipe, perf, ff, procs, hung, hc, tr, inflight, app,
                    demux, conv, timers, term >>

\* fs.readFile of captureFrame activation i settles: the call returns the
\* bytes or null, and finally clears captureInProgress either way
ShotReadDone(i, n) ==
    /\ ~hung
    /\ i \in 1..Len(loops)
    /\ loops[i].pc = "shotRead"
    /\ loops' = Moved(loops, i, "exit")
    /\ wc' = AcquisitionFailed(wc)
    /\ op' = Op("shotReadDone", n, 0)
    /\ UNCHANGED << driver, pipe, perf, ff, procs, hung, hc, tr, inflight, app,
                    demux, conv, timers, term >>

SwStopContinuousCapture ==
    /\ driver = "webcam" /\ ~hung
    /\ wc' = WCStopContinuousCapture(wc)
    /\ loops' = Stopped(loops)
    /\ op' = Op("wc.stopContinuousCapture", 0, 0)
    /\ UNCHANGED << driver, pipe, perf, ff, procs, hung, hc, tr, inflight, app,
                    demux, conv, timers, term >>

----------------------------------------------------------------------------
(* HybridCapture: src/src/webcam/capture.js, lines 206-355 *)

\* constructor; ffmpegCapture and softwareCapture tell whether the object has
\* been constructed, activeCapture and mode are "null" until initialize
HybridCaptureNew ==
    [ffmpegCapture |-> FALSE, softwareCapture |-> FALSE,
     activeCapture |-> "null", mode |-> "null",
     width |-> DefaultWidth, height |-> DefaultHeight]

\* the capture objects and what they own
CS == [hc |-> hc, ff |-> ff, procs |-> procs, wc |-> wc, loops |-> loops]

\* initialize(width, height) up to the await of the probe
HCInitializeBegin(s, w, h) ==
    [s EXCEPT !.hc.width = w, !.hc.height = h, !.hc.ffmpegCapture = TRUE,
              !.ff = FFInitialize(FFmpegCaptureNew, w, h)]

\* initialize that takes the hardware source whatever the probe answers
HCInitializeHardware(s, available, outcome) ==
    LET r == FFStart([ff |-> s.ff, procs |-> s.procs], outcome)
    IN  [s EXCEPT !.hc.activeCapture = "ffmpeg", !.hc.mode = "hardware",
                  !.ff = r.ff, !.procs = r.procs]

\* initialize(width, height) from the probe's answer to its return
HCInitializeEnd(s, available, outcome) ==
    IF available
    THEN LET r == FFStart([ff |-> s.ff, procs |-> s.procs], outcome)
         IN  [s EXCEPT !.hc.activeCapture = "ffmpeg", !.hc.mode = "hardware",
                       !.ff = r.ff, !.procs = r.procs]
    ELSE LET r == WCStartContinuousCapture(
                      [wc |-> WCInitialize(WebcamCaptureNew,
                                           s.hc.width, s.hc.height),
                       loops |-> s.loops])
         IN  [s EXCEPT !.hc.softwareCapture = TRUE,
                       !.hc.activeCapture = "software", !.hc.mode = "software",
                       !.wc = r.wc, !.loops = r.loops]

\* the value initialize resolves to
HCInitializeResult(available) == IF available THEN "hardware" ELSE "software"

\* getLatestFrame()
HCGetLatestFrame(s) ==
    CASE s.hc.activeCapture = "null" -> Null
      [] s.hc.activeCapture = "ffmpeg" -> FFGetLatestFrame(s.ff)
      [] s.hc.activeCapture = "software" -> WCGetLatestFrame(s.wc)

\* updateResolution that gives the hardware source up for the software one
HCUpdateResolutionFallback(s, w, h, outcome) ==
    [s EXCEPT !.hc.width = w, !.hc.height = h, !.hc.mode = "software"]

\* updateResolution(width, height)
HCUpdateResolution(s, w, h, outcome) ==
    IF w = s.hc.width /\ h = s.hc.height
    THEN s
    ELSE LET t == [s EXCEPT !.hc.width = w, !.hc.height = h]
         IN  CASE t.hc.activeCapture = "null" -> t
               [] t.hc.activeCapture = "ffmpeg" ->
                     LET r == FFUpdateResolution(
                                  [ff |-> t.ff, procs |-> t.procs], w, h, outcome)
                     IN  [t EXCEPT !.ff = r.ff, !.procs = r.procs]
               [] t.hc.activeCapture = "software" ->
                     [t EXCEPT !.wc = WCUpdateResolution(t.wc, w, h),
                               !.loops = Stale(t.loops, t.wc, w, h)]

\* whether updateResolution(width, height) throws to its caller when the
\* subprocess it spawns comes out as `outcome`: neither it nor
\* FFmpegCapture.updateResolution, stop or start has a throw statement or a
\* return value, and spawn reports a subprocess that could not be started
\* through the 'error' event, whose handler only clears isRunning
HCUpdateResolutionThrows(s, w, h, outcome) == FALSE

\* updateResolution spawns when it restarts the hardware source
CanHCUpdateResolution(s, w, h) ==
    \/ w = s.hc.width /\ h = s.hc.height
    \/ s.hc.activeCapture # "ffmpeg"
    \/ CanUpdateResolution([ff |-> s.ff, procs |-> s.procs], w, h)

\* cleanup() up to the await of fs.unlink in WebcamCapture.cleanup (which it
\* reaches only when a software source exists): FFmpegCapture.cleanup() is
\* stop(); WebcamCapture.cleanup() begins with stopContinuousCapture()
HCCleanupBegin(s) ==
    LET r == IF s.hc.ffmpegCapture
             THEN FFStop([ff |-> s.ff, procs |-> s.procs])
             ELSE [ff |-> s.ff, procs |-> s.procs]
    IN  IF s.hc.softwareCapture
        THEN [s EXCEPT !.ff = r.ff, !.procs = r.procs,
                       !.wc = WCStopContinuousCapture(s.wc),
                       !.loops = Stopped(s.loops)]
        ELSE [s EXCEPT !.ff = r.ff, !.procs = r.procs,
                       !.hc.activeCapture = "null"]

\* cleanup() after fs.unlink has settled
HCCleanupEnd(s) ==
    [s EXCEPT !.wc.lastFrameBuffer = Null, !.hc.activeCapture = "null"]

----------------------------------------------------------------------------
(* A client that drives a HybridCapture directly through its methods.       *)
(* app.pc is where the client stands: "new", "initializing" (initialize is  *)
(* awaited), "running", "cleaning" (cleanup is awaited) or "cleaned";       *)
(* app.captureMode is the value initialize resolved to.                     *)

\* initialize(width, height) up to the await of the probe
HcInitialize(w, h) ==
    /\ driver = "hybrid" /\ ~hung
    /\ app.pc = "new"
    /\ LET r == HCInitializeBegin(CS, w, h)
       IN  /\ hc' = r.hc
           /\ ff' = r.ff
    /\ app' = [app EXCEPT !.pc = "initializing"]
    /\ op' = Op("hc.initialize", w, h)
    /\ UNCHANGED << driver, pipe, perf, procs, hung, wc, loops, tr, inflight,
                    demux, conv, timers, term >>

\* the probe answers and initialize resolves
HcInitialized(available, outcome) ==
    /\ driver = "hybrid" /\ ~hung
    /\ app.pc = "initializing"
    /\ LET r == HCInitializeEnd(CS, available, outcome)
       IN  /\ hc' = r.hc
           /\ ff' = r.ff
           /\ procs' = r.procs
           /\ wc' = r.wc
           /\ loops' = r.loops
    /\ app' = [app EXCEPT !.pc = "running",
                          !.captureMode = HCInitializeResult(available)]
    /\ op' = Op("hc.initialized", IF available THEN 1 ELSE 0, 0)
    /\ UNCHANGED << driver, pipe, perf, hung, tr, inflight, demux, conv, timers, term >>

\* updateResolution(width, height)
HcUpdateResolution(w, h, outcome) ==
    /\ driver = "hybrid" /\ ~hung
    /\ app.pc \in {"running", "cleaned"}
    /\ CanHCUpdateResolution(CS, w, h)
    /\ LET r == HCUpdateResolution(CS, w, h, outcome)
       IN  /\ hc' = r.hc
           /\ ff' = r.ff
           /\ procs' = r.procs
           /\ wc' = r.wc
           /\ loops' = r.loops
    /\ op' = [OpUpdate("hc.updateResolution", w, h, hc.width, hc.height)
                 EXCEPT !.threw = HCUpdateResolutionThrows(CS, w, h, outcome)]
    /\ UNCHANGED << driver, pipe, perf, hung, tr, inflight, app, demux, conv, timers, term >>

\* cleanup() up to the await inside WebcamCapture.cleanup()
HcCleanup ==
    /\ driver = "hybrid" /\ ~hung
    /\ app.pc = "running"
    /\ LET r == HCCleanupBegin(CS)
       IN  /\ hc' = r.hc
           /\ ff' = r.ff
           /\ procs' = r.procs
           /\ wc' = r.wc
           /\ loops' = r.loops
    /\ app' = [app EXCEPT !.pc = IF hc.softwareCapture
                                 THEN "cleaning" ELSE "cleaned"]
    /\ op' = Op("hc.cleanup", 0, 0)
    /\ UNCHANGED << driver, pipe, perf, hung, tr, inflight, demux, conv, timers, term >>

\* fs.unlink settles and cleanup() resolves
HcCleanupDone ==
    /\ driver = "hybrid" /\ ~hung
    /\ app.pc = "cleaning"
    /\ hc' = HCCleanupEnd(CS).hc
    /\ wc' = HCCleanupEnd(CS).wc
    /\ app' = [app EXCEPT !.pc = "cleaned"]
    /\ op' = Op("hc.cleanupDone", 0, 0)
    /\ UNCHANGED << driver, pipe, perf, ff, procs, hung, loops, tr, inflight,
                    demux, conv, timers, term >>

----------------------------------------------------------------------------
(* TerminalRenderer: src/src/renderer/terminal.js *)

TimerIds == 1..MaxTimers

\* constructor; timeoutId 0 is null
TerminalRendererNew == [isRunning |-> FALSE, timeoutId |-> 0]

\* the renderer together with its pending timers
TR == [tr |-> tr, timers |-> timers]

\* _scheduleNextFrame()
ScheduleNextFrame(s) ==
    IF ~s.tr.isRunning
    THEN s
    ELSE LET id == CHOOSE t \in TimerIds : t \notin s.timers
         IN  [tr |-> [s.tr EXCEPT !.timeoutId = id],
              timers |-> s.timers \cup {id}]

\* start() without `if (this.isRunning) return`
TRStartUnguarded(s) == ScheduleNextFrame([s EXCEPT !.tr.isRunning = TRUE])

\* start(onFrame, onStats)
TRStart(s) ==
    IF s.tr.isRunning
    THEN s
    ELSE ScheduleNextFrame([s EXCEPT !.tr.isRunning = TRUE])

\* stop() that only clears isRunning
TRStopKeepsTimer(s) == [s EXCEPT !.tr.isRunning = FALSE]

\* stop()
TRStop(s) ==
    IF ~s.tr.isRunning
    THEN s
    ELSE IF s.tr.timeoutId # 0
    THEN [tr |-> [s.tr EXCEPT !.isRunning = FALSE, !.timeoutId = 0],
          timers |-> s.timers \ {s.tr.timeoutId}]
    ELSE [s EXCEPT !.tr.isRunning = FALSE]

\* _captureAndRender without the _scheduleNextFrame() at its head
NoScheduleAtHead(s) == s

\* the first two statements of _captureAndRender, run by the timer callback
\* after its timer has fired
CaptureAndRenderHead(s) ==
    IF ~s.tr.isRunning THEN s ELSE ScheduleNextFrame(s)

\* one more / one less conversion awaiting the image library
Launched(n) == IF n < MaxInflight THEN n + 1 ELSE MaxInflight
Settled(n) == IF n < MaxInflight THEN {n - 1} ELSE {MaxInflight - 1, MaxInflight}

\* convertToTerminal takes the synchronous byte-to-glyph path when the length
\* of the buffer is width * height (the converter's mode is never 'sharp')
IsRawPixels(frame, w, h) == Len(frame) = w * h

\* _captureAndRender without `if (!frameBuffer) return`
RenderPathUnguarded(frame, w, h) ==
    IF frame # Null /\ ~(Len(frame[1]) = w * h) THEN "sharp" ELSE "raw"

\* what _captureAndRender does with the frame it read: "none" (it returns),
\* "raw" (the conversion settles at once) or "sharp" (the conversion awaits
\* the image library)
RenderPath(frame, w, h) ==
    IF frame = Null THEN "none"
    ELSE IF IsRawPixels(frame[1], w, h) THEN "raw"
    ELSE "sharp"

\* onFrame and onStats of the application that do not look at isRunning
CallbackWritesUnguarded == driver = "app"

\* onFrame(frame) and onStats(stats) of the application go on to
\* screen.updateVideo and screen.updateStats (op.video, op.stats)
CallbackWrites == driver = "app" /\ app.isRunning

\* the rest of _captureAndRender once the glyph grid is there: onFrame is
\* invoked, and _updateFps invokes onStats when a second has elapsed since
\* the last FPS update
Delivered(o, second) ==
    [o EXCEPT !.onFrame = TRUE, !.onStats = second,
              !.video = CallbackWrites, !.stats = second /\ CallbackWrites]

\* where the try block of _captureAndRender may throw, or the promise it
\* awaits reject: in the tick itself, and after the await
TickThrows == {"none", "getLatestFrame", "dimensions", "onFrame", "onStats"}
ConversionThrows == {"none", "convert", "onFrame", "onStats"}

\* the record of a tick or of its continuation in which `throws` has thrown:
\* op.a is 2, op.b tells where, and the callbacks invoked before are marked
Thrown(o, throws) ==
    [o EXCEPT !.a = 2,
              !.b = CASE throws = "getLatestFrame" -> 1
                      [] throws = "dimensions" -> 2
                      [] throws = "convert" -> 3
                      [] throws = "onFrame" -> 4
                      [] throws = "onStats" -> 5,
              !.onFrame = throws \in {"onFrame", "onStats"},
              !.onStats = (throws = "onStats"),
              !.video = throws \in {"onFrame", "onStats"} /\ CallbackWrites,
              !.stats = (throws = "onStats") /\ CallbackWrites]

\* a catch block that stops the renderer
CaughtStops(s) == TRStop(s)

\* the catch block of _captureAndRender: console.error
Caught(s) == s

\* this.performanceStats and this.enablePerfLogging as the constructor sets
\* them; reported is the number of samples the last report was averaged
\* over, 0 when nothing has been reported
PerfNew ==
    [captureTime |-> 0, sharpTime |-> 0, totalTime |-> 0, sampleCount |-> 0,
     enablePerfLogging |-> FALSE, reported |-> 0]

\* _trackPerformance(captureTime, sharpTime, totalTime)
TrackPerformance(r, captureTime, sharpTime, totalTime) ==
    LET acc == [r EXCEPT !.captureTime = @ + captureTime,
                         !.sharpTime = @ + sharpTime,
                         !.totalTime = @ + totalTime,
                         !.sampleCount = @ + 1]
    IN  IF acc.enablePerfLogging /\ acc.sampleCount % PerfPeriod = 0
        THEN [PerfNew EXCEPT !.enablePerfLogging = TRUE,
                             !.reported = acc.sampleCount]
        ELSE acc

\* a tick of the renderer has delivered a frame and tracks its times: the
\* conversion took sharpTime ms, the tick one more
PerfTrack(sharpTime) ==
    /\ driver = "perf"
    /\ perf.sampleCount < MaxSamples
    /\ perf' = TrackPerformance(perf, 0, sharpTime, sharpTime + 1)
    /\ op' = Op("tr.trackPerformance", sharpTime, 0)
    /\ UNCHANGED << driver, pipe, ff, procs, hung, wc, loops, hc, tr, inflight, app,
                    demux, conv, timers, term >>

\* togglePerfLogging()
PerfToggle ==
    /\ driver = "perf"
    /\ perf' = [perf EXCEPT !.enablePerfLogging = ~@]
    /\ op' = Op("tr.togglePerfLogging", 0, 0)
    /\ UNCHANGED << driver, pipe, ff, procs, hung, wc, loops, hc, tr, inflight, app,
                    demux, conv, timers, term >>

----------------------------------------------------------------------------
(* TerminalWebcamApp: src/unnamed/part_000 *)

\* constructor; pc is where start()/quit() stand: "new", "initializing" (start
\* awaits HybridCapture.initialize), "running", "failed" (start() has returned
\* from its catch block and the process lives on), "quitting" (quit awaits
\* HybridCapture.cleanup) or "exited" (process.exit was called); exitCode is
\* the argument of the quit that got past its guard, -1 before there is one
AppNew ==
    [pc |-> "new", isRunning |-> FALSE, captureMode |-> "null",
     renderer |-> FALSE, resizeHandler |-> FALSE, exitCode |-> -1]

\* start() up to the await of webcam.initialize(termWidth, termHeight)
AppStart ==
    /\ driver = "app" /\ ~hung
    /\ app.pc = "new"
    /\ LET r == HCInitializeBegin(CS, term.width, term.height)
       IN  /\ hc' = r.hc
           /\ ff' = r.ff
    /\ app' = [app EXCEPT !.pc = "initializing"]
    /\ op' = Op("app.start", 0, 0)
    /\ UNCHANGED << driver, pipe, perf, procs, hung, wc, loops, tr, inflight,
                    demux, conv, timers, term >>

\* the probe answers: initialize returns, start() registers the resize
\* handler, creates the renderer and starts it
AppInitialized(available, outcome) ==
    /\ driver = "app" /\ ~hung
    /\ app.pc = "initializing"
    /\ LET r == HCInitializeEnd(CS, available, outcome)
           t == TRStart([tr |-> TerminalRendererNew, timers |-> timers])
       IN  /\ hc' = r.hc
           /\ ff' = r.ff
           /\ procs' = r.procs
           /\ wc' = r.wc
           /\ loops' = r.loops
           /\ tr' = t.tr
           /\ timers' = t.timers
    /\ app' = [app EXCEPT !.pc = "running", !.isRunning = TRUE,
                          !.captureMode = HCInitializeResult(available),
                          !.renderer = TRUE, !.resizeHandler = TRUE]
    /\ op' = Op("app.initialized", IF available THEN 1 ELSE 0, 0)
    /\ UNCHANGED << driver, pipe, perf, hung, inflight, demux, conv, term >>

\* the steps of start() that may throw: creating the screen, the software
\* source inside webcam.initialize, the first screen.render()
StartSteps == {"screen", "initialize", "render"}

\* a step of start() throws: the catch block calls quit(1), which returns at
\* once while isRunning is false and otherwise stops the renderer and starts
\* the cleanup.  Only the last step comes after isRunning = true.
AppStartFailed(step, available, outcome) ==
    /\ driver = "app" /\ ~hung
    /\ CASE step = "screen" ->
              /\ app.pc = "new"
              /\ app' = [app EXCEPT !.pc = "failed"]
              /\ UNCHANGED << hc, ff, procs, wc, loops, tr, timers >>
         [] step = "initialize" ->
              /\ app.pc = "initializing" /\ ~available
              /\ hc' = [hc EXCEPT !.softwareCapture = TRUE]
              /\ app' = [app EXCEPT !.pc = "failed"]
              /\ UNCHANGED << ff, procs, wc, loops, tr, timers >>
         [] step = "render" ->
              /\ app.pc = "initializing"
              /\ LET i == HCInitializeEnd(CS, available, outcome)
                     r == HCCleanupBegin(i)
                     t == TRStop(TRStart([tr |-> TerminalRendererNew,
                                          timers |-> timers]))
                 IN  /\ hc' = r.hc
                     /\ ff' = r.ff
                     /\ procs' = r.procs
                     /\ wc' = r.wc
                     /\ loops' = r.loops
                     /\ tr' = t.tr
                     /\ timers' = t.timers
                     /\ app' = [app EXCEPT
                                  !.isRunning = FALSE, !.exitCode = 1,
                                  !.captureMode = HCInitializeResult(available),
                                  !.renderer = TRUE, !.resizeHandler = TRUE,
                                  !.pc = IF i.hc.softwareCapture
                                         THEN "quitting" ELSE "exited"]
    /\ op' = Op("app.startFailed", 0, 0)
    /\ UNCHANGED << driver, pipe, perf, hung, inflight, demux, conv, term >>

\* the terminal changes size; blessed emits 'resize' later
TerminalResized(w, h) ==
    /\ driver = "app" /\ ~hung
    /\ app.pc \in {"initializing", "running"}
    /\ << w, h >> # << term.width, term.height >>
    /\ term' = [width |-> w, height |-> h, resizePending |-> TRUE]
    /\ op' = Op("terminalResized", 0, 0)
    /\ UNCHANGED << driver, pipe, perf, ff, procs, hung, wc, loops, hc, tr, inflight,
                    app, demux, conv, timers >>

\* blessedScreen.on('resize'): webcam.updateResolution(newTermWidth,
\* newTermHeight); without a registered handler the event is dropped
ResizeEvent(outcome) ==
    /\ driver = "app" /\ ~hung
    /\ app.pc # "exited"
    /\ term.resizePending
    /\ term' = [term EXCEPT !.resizePending = FALSE]
    /\ IF app.resizeHandler
       THEN /\ CanHCUpdateResolution(CS, term.width, term.height)
            /\ LET r == HCUpdateResolution(CS, term.width, term.height, outcome)
               IN  /\ hc' = r.hc
                   /\ ff' = r.ff
                   /\ procs' = r.procs
                   /\ wc' = r.wc
                   /\ loops' = r.loops
            /\ op' = OpUpdate("hc.updateResolution", term.width, term.height,
                              hc.width, hc.height)
       ELSE /\ UNCHANGED << hc, ff, procs, wc, loops >>
            /\ op' = Op("resizeDropped", 0, 0)
    /\ UNCHANGED << driver, pipe, perf, hung, tr, inflight, app, demux, conv, timers >>

\* the setTimeout callback: _captureAndRender().  second tells whether a
\* second has elapsed since the last FPS update when a frame is delivered.
\* A conversion on the byte-to-glyph path settles before any other handler
\* runs; one that goes to the image library is awaited.  throws tells which
\* call of the try block throws, if any.  op.ticks tells a tick from the tick
\* that ran just before it.
Tick(t, second, throws) ==
    /\ driver \in {"app", "renderer"} /\ ~hung
    /\ app.pc # "exited"
    /\ t \in timers
    /\ LET r == CaptureAndRenderHead([tr |-> tr, timers |-> timers \ {t}])
           path == IF ~tr.isRunning THEN "none"
                   ELSE RenderPath(HCGetLatestFrame(CS), term.width, term.height)
           o == [Op("tick", 0, 0) EXCEPT
                    !.ticks = IF op.name = "tick" THEN 1 - op.ticks ELSE 0]
       IN  IF throws = "none"
           THEN /\ tr' = r.tr
                /\ timers' = r.timers
                /\ CASE path = "none" ->
                            /\ inflight' = inflight
                            /\ op' = o
                     [] path = "raw" ->
                            /\ inflight' = inflight
                            /\ op' = Delivered([o EXCEPT !.a = 1], second)
                     [] path = "sharp" ->
                            /\ inflight' = Launched(inflight)
                            /\ op' = [o EXCEPT !.a = 1]
           ELSE /\ tr.isRunning
                /\ CASE throws = "getLatestFrame" -> TRUE
                     [] throws = "dimensions" -> path # "none"
                     [] throws = "onFrame" -> path = "raw"
                     [] throws = "onStats" -> path = "raw" /\ second
                /\ tr' = Caught(r).tr
                /\ timers' = Caught(r).timers
                /\ inflight' = inflight
                /\ op' = Thrown(o, throws)
    /\ UNCHANGED << driver, pipe, perf, ff, procs, hung, wc, loops, hc, app, demux, conv, term >>

\* the image library settles a conversion (with pixels, or with an error for
\* which convertToTerminal returns the error frame): the rest of
\* _captureAndRender runs.  throws = "convert": the promise of
\* convertToTerminal rejects.
ConversionDone(second, throws) ==
    /\ driver \in {"app", "renderer"} /\ ~hung
    /\ app.pc # "exited"
    /\ inflight > 0
    /\ inflight' \in Settled(inflight)
    /\ IF throws = "none"
       THEN /\ op' = Delivered(Op("conversionDone", 0, 0), second)
            /\ UNCHANGED << tr, timers >>
       ELSE /\ throws = "onStats" => second
            /\ op' = Thrown(Op("conversionDone", 0, 0), throws)
            /\ tr' = Caught([tr |-> tr, timers |-> timers]).tr
            /\ timers' = Caught([tr |-> tr, timers |-> timers]).timers
    /\ UNCHANGED << driver, pipe, perf, ff, procs, hung, wc, loops, hc, app, demux, conv,
                    term >>

\* quit(exitCode) up to the await inside webcam.cleanup(); without a software
\* source nothing is awaited on I/O and quit runs on to process.exit
Quit ==
    /\ driver = "app" /\ ~hung
    /\ app.pc # "exited"
    /\ IF ~app.isRunning
       THEN UNCHANGED << app, tr, timers, hc, ff, procs, wc, loops >>
       ELSE /\ LET t == IF app.renderer THEN TRStop(TR) ELSE TR
                   r == HCCleanupBegin(CS)
               IN  /\ tr' = t.tr
                   /\ timers' = t.timers
                   /\ hc' = r.hc
                   /\ ff' = r.ff
                   /\ procs' = r.procs
                   /\ wc' = r.wc
                   /\ loops' = r.loops
            /\ app' = [app EXCEPT !.isRunning = FALSE, !.exitCode = 0,
                                  !.pc = IF hc.softwareCapture
                                         THEN "quitting" ELSE "exited"]
    /\ op' = Op("app.quit", 0, 0)
    /\ UNCHANGED << driver, pipe, perf, hung, inflight, demux, conv, term >>

\* fs.unlink settles: cleanup() returns, quit destroys the screen and exits
QuitDone ==
    /\ driver = "app" /\ ~hung
    /\ app.pc = "quitting"
    /\ hc' = HCCleanupEnd(CS).hc
    /\ wc' = HCCleanupEnd(CS).wc
    /\ app' = [app EXCEPT !.pc = "exited"]
    /\ op' = Op("app.quitDone", 0, 0)
    /\ UNCHANGED << driver, pipe, perf, ff, procs, hung, loops, tr, inflight,
                    demux, conv, timers, term >>

----------------------------------------------------------------------------
(* A client that drives a TerminalRenderer directly through start() and     *)
(* stop(), over a HybridCapture it has initialized in hardware mode.        *)

\* start(onFrame, onStats)
RStart ==
    /\ driver = "renderer" /\ ~hung
    /\ tr' = TRStart(TR).tr
    /\ timers' = TRStart(TR).timers
    /\ op' = [Op("tr.start", 0, 0) EXCEPT !.same = tr.isRunning]
    /\ UNCHANGED << driver, pipe, perf, ff, procs, hung, wc, loops, hc, inflight, app,
                    demux, conv, term >>

\* stop(); op.same tells that the renderer was not running
RStop ==
    /\ driver = "renderer" /\ ~hung
    /\ tr' = TRStop(TR).tr
    /\ timers' = TRStop(TR).timers
    /\ op' = [Op("tr.stop", 0, 0) EXCEPT !.same = ~tr.isRunning]
    /\ UNCHANGED << driver, pipe, perf, ff, procs, hung, wc, loops, hc, inflight, app,
                    demux, conv, term >>

----------------------------------------------------------------------------
(* ImageConverter: src/src/renderer/converter.js, called on its own.        *)
(* A string is the sequence of its UTF-16 code units; a Buffer is the       *)
(* sequence of its bytes.                                                   *)

\* ramp lengths 2..MaxRamp are tried
MaxRamp == 52
\* raw frames of 1..MaxCols by 1..MaxRows pixels are converted
MaxCols == 2
MaxRows == 2
\* error frames of 0..MaxErrCols by 0..MaxErrRows are asked for, with error
\* messages of 0..MaxMsg characters
MaxErrCols == 12
MaxErrRows == 3
MaxMsg == 3

\* '\n' and ' '
NL == 10
SP == 32

\* the default ramp ' ░▒▓█'
DefaultRamp == << 32, 9617, 9618, 9619, 9608 >>

\* a ramp of L glyphs, as setCharacterRamp accepts any string: the default
\* one when L is its length, else 'A', 'B', ...
RampOf(L) == IF L = Len(DefaultRamp) THEN DefaultRamp ELSE [i \in 1..L |-> 64 + i]

\* the brightness values the pixels of the frames converted take
Shades == {0, 128, 255}

\* 'ERROR: ' + errorMsg for a message of m characters 'x'
ErrorLine(m) == << 69, 82, 82, 79, 82, 58, 32 >> \o [i \in 1..m |-> 120]

RECURSIVE Pow2(_)
Pow2(n) == IF n = 0 THEN 1 ELSE 2 * Pow2(n - 1)

\* number of binary digits of n > 0
RECURSIVE BitLength(_)
BitLength(n) == IF n < 2 THEN 1 ELSE 1 + BitLength(n \div 2)

\* Math.floor((brightness / 255) * (rampLength - 1)) as IEEE-754 binary64
\* evaluates it, for an integer brightness b in 0..255 and L >= 1.
\*   b / 255 is 0.BBB... in binary, B the 8 binary digits of b, for ever.
\* With z the leading zeros of B, the 53-digit significand ends z + 53
\* digits after the point, and what is cut off is tail / 255 of a unit in
\* the last place, tail = (b * 2^((z+53) % 8)) % 255 (2^8 = 1 modulo 255);
\* the quotient is rounded down when tail / 255 < 1/2, up otherwise.
\*   The product with L - 1 is rounded once more.  Both errors are far
\* below 1/255, so the floor is that of the exact value unless the exact
\* value is an integer k > 0.  Then a quotient rounded up gives k; one
\* rounded down gives k - tail * (L-1) / 255 * 2^-(z+53) before rounding,
\* which rounds to k (ties go to k, whose significand is even) unless the
\* deficit exceeds half the gap between k and the double below it,
\* 2^(e-53) with 2^e <= k < 2^(e+1), and half of that when k = 2^e.
BrightnessIndex(b, L) ==
    LET m == L - 1
        k == (b * m) \div 255
        z == 8 - BitLength(b)
        tail == (b * Pow2((z + 53) % 8)) % 255
        e == BitLength(k) - 1
        g == e + z - (IF k = Pow2(e) THEN 1 ELSE 0)
        below == IF g >= 0 THEN tail * m > 255 * Pow2(g)
                           ELSE tail * m * Pow2(0 - g) > 255
    IN  IF b = 0 \/ k = 0 \/ (b * m) % 255 # 0 THEN k
        ELSE IF 2 * tail > 255 THEN k
        ELSE IF below THEN k - 1 ELSE k

\* _brightnessToChar(brightness) with this.charRamp = ramp
BrightnessToChar(b, ramp) == ramp[BrightnessIndex(b, Len(ramp)) + 1]

\* lines.join('\n')
RECURSIVE Join(_)
Join(lines) ==
    IF lines = << >> THEN << >>
    ELSE IF Len(lines) = 1 THEN lines[1]
    ELSE lines[1] \o << NL >> \o Join(Tail(lines))

\* _pixelsToAscii that fills the rows column by column
PixelsToAsciiTransposed(pixelData, width, height, ramp) ==
    Join([y \in 1..height |->
            [x \in 1..width |->
                BrightnessToChar(pixelData[(x - 1) * height + y], ramp)]])

\* _pixelsToAscii that takes the glyph of the first pixel from the default
\* ramp and the others from this.charRamp
PixelsToAsciiMixed(pixelData, width, height, ramp) ==
    Join([y \in 1..height |->
            [x \in 1..width |->
                BrightnessToChar(pixelData[(y - 1) * width + (x - 1) + 1],
                                 IF x = 1 /\ y = 1 THEN DefaultRamp ELSE ramp)]])

\* _pixelsToAscii(pixelData, width, height) with this.charRamp = ramp
PixelsToAscii(pixelData, width, height, ramp) ==
    Join([y \in 1..height |->
            [x \in 1..width |->
                BrightnessToChar(pixelData[(y - 1) * width + (x - 1) + 1], ramp)]])

\* s.repeat(Math.max(0, n)) of a one-character string
Repeat(c, n) == [i \in 1..n |-> c]

\* Math.floor(n / 2) for an integer n, negative ones included
FloorHalf(n) == IF n >= 0 THEN n \div 2 ELSE 0 - ((1 - n) \div 2)

\* _createErrorFrame(width, height, errorMsg), errorLine being
\* 'ERROR: ' + errorMsg
CreateErrorFrame(width, height, errorLine) ==
    LET padding == FloorHalf(width - Len(errorLine))
        verticalPadding == FloorHalf(height)
    IN  Repeat(NL, verticalPadding)
            \o Repeat(SP, padding) \o errorLine \o << NL >>
            \o Repeat(NL, height - verticalPadding - 1)

\* what the image library does with a source: it resolves with the pixels
\* of the resized picture or rejects with an error of msg characters
SharpResolves(data) == [ok |-> TRUE, data |-> data, msg |-> 0]
SharpRejects(m) == [ok |-> FALSE, data |-> << >>, msg |-> m]

\* convertToTerminal(imageSource, width, height) with this.charRamp = ramp;
\* lib is what the image library does if it is called
ConvertToTerminal(imageSource, width, height, ramp, lib) ==
    IF imageSource = Null
    THEN << >>
    ELSE IF IsRawPixels(imageSource[1], width, height)
    THEN PixelsToAscii(imageSource[1], width, height, ramp)
    ELSE IF lib.ok
    THEN PixelsToAscii(lib.data, width, height, ramp)
    ELSE CreateErrorFrame(width, height, ErrorLine(lib.msg))

\* (encoded tells that the frame passed is an encoded image, path which branch
\* of convertToTerminal the call took)
ImageConverterNew ==
    [call |-> "none", w |-> 0, h |-> 0, frame |-> Null, lib |-> SharpRejects(0),
     ramp |-> DefaultRamp, out |-> << >>, index |-> 0,
     encoded |-> FALSE, path |-> "none"]

\* an encoded image of n bytes as the software source publishes it: the
\* bytes of a JPEG file, which begins with the marker FF D8
EncodedImage(n) == [i \in 1..n |-> IF i % 2 = 1 THEN 255 ELSE 216]

\* The converter keeps nothing from one call to the next but the ramp and the
\* dimensions it logs, so each behaviour makes one call on a new converter.

\* a client calls _brightnessToChar(b) with a ramp of L glyphs
ConvBrightnessToChar(b, L) ==
    /\ driver = "convert"
    /\ conv.call = "none"
    /\ conv' = [ImageConverterNew EXCEPT
                    !.call = "brightnessToChar", !.w = b, !.ramp = RampOf(L),
                    !.index = BrightnessIndex(b, L),
                    !.out = << BrightnessToChar(b, RampOf(L)) >>]
    /\ op' = Op("conv.brightnessToChar", b, L)
    /\ UNCHANGED << driver, pipe, perf, ff, procs, hung, wc, loops, hc, tr, inflight, app,
                    demux, timers, term >>

\* a client calls convertToTerminal and the promise settles
ConvConvertToTerminal(imageSource, w, h, lib, encoded) ==
    /\ driver = "convert"
    /\ conv.call = "none"
    /\ conv' = [ImageConverterNew EXCEPT
                    !.call = "convertToTerminal", !.w = w, !.h = h,
                    !.frame = imageSource, !.lib = lib, !.encoded = encoded,
                    !.path = RenderPath(imageSource, w, h),
                    !.out = ConvertToTerminal(imageSource, w, h, DefaultRamp, lib)]
    /\ op' = Op("conv.convertToTerminal", w, h)
    /\ UNCHANGED << driver, pipe, perf, ff, procs, hung, wc, loops, hc, tr, inflight, app,
                    demux, timers, term >>

----------------------------------------------------------------------------
(* The renderer and its converter from the read of a frame to onFrame, on  *)
(* a terminal of PipeWidth by PipeHeight cells                              *)

PipeWidth == 2
PipeHeight == 1

\* the ramps setCharacterSet is called with
Ramps == {RampOf(2), DefaultRamp}

\* the pixels of the frames the source publishes: two different images
PipeFrames ==
    {[i \in 1..(PipeWidth * PipeHeight) |-> IF i % 2 = 1 THEN 0 ELSE 255],
     [i \in 1..(PipeWidth * PipeHeight) |-> IF i % 2 = 1 THEN 255 ELSE 128]}

\* a new renderer: the ramp of its converter, no tick yet
PipeNew == [ramp |-> DefaultRamp, ticks |-> 0, pending |-> {}, delivered |-> << >>]

\* this.onFrameCallback(terminalFrame) for the tick that read the frame;
\* data are the pixels converted and ramp the ramp the grid was built from
OnFrame(s, tick, data, grid) ==
    [s EXCEPT !.delivered =
                  Append(@, [tick |-> tick, data |-> data, grid |-> grid])]

\* the timer fires and _captureAndRender reads a frame.  A raw frame of the
\* hardware source (encoded = FALSE) is converted and delivered before any
\* other handler runs; for an encoded one the image library is called,
\* which will resolve with the pixels `data`, and the tick awaits it.
PipeTick(data, encoded) ==
    /\ driver = "pipeline"
    /\ pipe.ticks < MaxTicks
    /\ LET t == pipe.ticks + 1
           s == [pipe EXCEPT !.ticks = t]
       IN  pipe' = IF encoded
                   THEN [s EXCEPT !.pending = @ \cup {[tick |-> t, data |-> data]}]
                   ELSE OnFrame(s, t, data,
                                PixelsToAscii(data, PipeWidth, PipeHeight, s.ramp))
    /\ op' = Op("tick", pipe.ticks + 1, IF encoded THEN 1 ELSE 0)
    /\ UNCHANGED << driver, perf, ff, procs, hung, wc, loops, hc, tr, inflight,
                    app, demux, conv, timers, term >>

\* the image library resolves one of the pending conversions (they run on
\* the threads of the library's pool and end in any order): _convertWithSharp
\* calls _pixelsToAscii, which reads this.charRamp now, and the rest of
\* _captureAndRender delivers the grid
PipeSettle(c) ==
    /\ driver = "pipeline"
    /\ c \in pipe.pending
    /\ pipe' = OnFrame([pipe EXCEPT !.pending = @ \ {c}], c.tick, c.data,
                       PixelsToAscii(c.data, PipeWidth, PipeHeight, pipe.ramp))
    /\ op' = Op("conversionDone", c.tick, 0)
    /\ UNCHANGED << driver, perf, ff, procs, hung, wc, loops, hc, tr, inflight,
                    app, demux, conv, timers, term >>

\* setCharacterSet(charRamp) of the renderer: converter.setCharacterRamp
PipeSetCharacterRamp(ramp) ==
    /\ driver = "pipeline"
    /\ pipe' = [pipe EXCEPT !.ramp = ramp]
    /\ op' = Op("tr.setCharacterSet", Len(ramp), 0)
    /\ UNCHANGED << driver, perf, ff, procs, hung, wc, loops, hc, tr, inflight,
                    app, demux, conv, timers, term >>

----------------------------------------------------------------------------
(* The specifications *)

\* the state after construction, for every driver
InitObjects ==
    /\ ff = FFmpegCaptureNew
    /\ procs = [p \in Pids |-> "none"]
    /\ hung = FALSE
    /\ wc = WebcamCaptureNew
    /\ loops = << >>
    /\ hc = HybridCaptureNew
    /\ tr = TerminalRendererNew
    /\ inflight = 0
    /\ app = AppNew
    /\ demux = [fed |-> 0, frames |-> 0]
    /\ conv = ImageConverterNew
    /\ perf = PerfNew
    /\ pipe = PipeNew
    /\ timers = {}
    /\ op = Op("init", 0, 0)

\* the process has not called process.exit
Live == app.pc # "exited"

\* what the subprocesses and the still-image driver do
Events ==
    \/ \E p \in Pids, n \in 1..MaxChunk : Live /\ Data(p, n)
    \/ \E p \in Pids : Live /\ Close(p)
    \/ \E p \in Pids : Live /\ Error(p)
    \/ \E i \in 1..(MaxLoops + MaxShots), ok \in BOOLEAN :
          Live /\ CaptureDone(i, ok)
    \/ \E i \in 1..(MaxLoops + MaxShots), n \in 0..MaxJpeg :
          Live /\ ReadDone(i, n)
    \/ \E i \in 1..(MaxLoops + MaxShots) : Live /\ LoopYield(i)

(* The whole program: src/unnamed/part_000 run from the command line *)

Init ==
    /\ driver = "app"
    /\ InitObjects
    /\ term \in [width : Dims, height : Dims, resizePending : {FALSE}]

Next ==
    \/ Events
    \/ AppStart
    \/ \E a \in BOOLEAN, o \in SpawnOutcome : AppInitialized(a, o)
    \/ \E step \in StartSteps, a \in BOOLEAN, o \in SpawnOutcome :
          AppStartFailed(step, a, o)
    \/ \E w \in Dims, h \in Dims : TerminalResized(w, h)
    \/ \E o \in SpawnOutcome : ResizeEvent(o)
    \/ \E t \in TimerIds, second \in BOOLEAN, throws \in TickThrows :
          Tick(t, second, throws)
    \/ \E second \in BOOLEAN, throws \in ConversionThrows :
          ConversionDone(second, throws)
    \/ Quit
    \/ QuitDone

Spec == Init /\ [][Next]_vars

\* a timer of the renderer fires and its callback runs
TimerFires ==
    \E t \in TimerIds, second \in BOOLEAN, throws \in TickThrows :
        Tick(t, second, throws)

\* A pending setTimeout timer fires: no handler of the program runs forever
\* (the subprocess is never started with bytesPerFrame = 0), so the event loop
\* always gets back to its timers.  Nothing is assumed of the image library.
SpecFair == Spec /\ WF_vars(TimerFires)

(* The frame demultiplexer alone: an FFmpegCapture initialized with any    *)
(* resolution is fed any sequence of chunks; demux counts the bytes fed and *)
(* the frames published.                                                    *)

\* the n bytes of the stream that follow its first `from` bytes: the value
\* of a byte is its position in the stream, so that every slice of the
\* stream can be told from every other
StreamChunk(from, n) == [i \in 1..n |-> (from + i) % 256]

Feed(n) ==
    /\ driver = "demux"
    /\ ff.bytesPerFrame > 0
    /\ demux.fed + n <= MaxFed
    /\ LET r == HandleFrameData(ff, StreamChunk(demux.fed, n))
       IN  /\ ff' = r.ff
           /\ demux' = [fed |-> demux.fed + n, frames |-> demux.frames + r.frames]
    /\ op' = Op("feed", n, 0)
    /\ UNCHANGED << driver, pipe, perf, procs, hung, wc, loops, hc, tr, inflight, app,
                    conv, timers, term >>

InitDemux ==
    /\ driver = "demux"
    /\ InitObjects
    /\ term = [width |-> 1, height |-> 1, resizePending |-> FALSE]

NextDemux ==
    \/ \E w \in Dims, h \in Dims : DemuxInitialize(w, h)
    \/ \E n \in 1..MaxFeed : Feed(n)

SpecDemux == InitDemux /\ [][NextDemux]_vars

(* The capture classes, each driven through its public methods *)

InitCapture ==
    /\ driver \in {"hybrid", "ffmpeg", "webcam"}
    /\ InitObjects
    /\ term = [width |-> 1, height |-> 1, resizePending |-> FALSE]

NextCapture ==
    \/ Events
    \/ \E w \in Dims, h \in Dims : HwInitialize(w, h)
    \/ \E o \in SpawnOutcome : HwStart(o)
    \/ HwStop
    \/ \E w \in Dims, h \in Dims, o \in SpawnOutcome : HwUpdateResolution(w, h, o)
    \/ \E w \in Dims \cup {0}, h \in Dims \cup {0} : SwInitialize(w, h)
    \/ \E w \in Dims, h \in Dims : SwUpdateResolution(w, h)
    \/ SwStartContinuousCapture
    \/ SwStopContinuousCapture
    \/ SwCaptureFrame
    \/ \E i \in 1..(MaxLoops + MaxShots), ok \in BOOLEAN : ShotDone(i, ok)
    \/ \E i \in 1..(MaxLoops + MaxShots), n \in 0..MaxJpeg : ShotReadDone(i, n)
    \/ \E w \in Dims, h \in Dims : HcInitialize(w, h)
    \/ \E a \in BOOLEAN, o \in SpawnOutcome : HcInitialized(a, o)
    \/ \E w \in Dims, h \in Dims, o \in SpawnOutcome : HcUpdateResolution(w, h, o)
    \/ HcCleanup
    \/ HcCleanupDone

SpecCapture == InitCapture /\ [][NextCapture]_vars

\* terminal sizes of 0..MaxTermCols by 0..MaxTermRows are tried
MaxTermCols == 180
MaxTermRows == 100

\* getOptimalCaptureResolution without the caps
OptimalCaptureResolutionUncapped(tw, th) ==
    [width |-> ((tw * 6) \div 2) * 2, height |-> ((th * 6) \div 2) * 2]

\* getOptimalCaptureResolution(terminalWidth, terminalHeight) of
\* src/src/webcam/config.js, for integers >= 0
GetOptimalCaptureResolution(tw, th) ==
    LET captureWidth == IF tw * 6 <= 1024 THEN tw * 6 ELSE 1024
        captureHeight == IF th * 6 <= 576 THEN th * 6 ELSE 576
    IN  [width |-> (captureWidth \div 2) * 2,
         height |-> (captureHeight \div 2) * 2]

\* a client calls getOptimalCaptureResolution(tw, th); conv.out is the
\* width and the height returned
ConvOptimalResolution(tw, th) ==
    /\ driver = "convert"
    /\ conv.call = "none"
    /\ conv' = [ImageConverterNew EXCEPT
                    !.call = "getOptimalCaptureResolution", !.w = tw, !.h = th,
                    !.out = << GetOptimalCaptureResolution(tw, th).width,
                               GetOptimalCaptureResolution(tw, th).height >>]
    /\ op' = Op("config.getOptimalCaptureResolution", tw, th)
    /\ UNCHANGED << driver, pipe, perf, ff, procs, hung, wc, loops, hc, tr, inflight, app,
                    demux, timers, term >>

(* The performance accumulators of the renderer alone: frames are          *)
(* delivered and logging is toggled in any order.                          *)

InitPerf ==
    /\ driver = "perf"
    /\ InitObjects
    /\ term = [width |-> 1, height |-> 1, resizePending |-> FALSE]

NextPerf ==
    \/ \E sharpTime \in 0..1 : PerfTrack(sharpTime)
    \/ PerfToggle

SpecPerf == InitPerf /\ [][NextPerf]_vars

InitPipeline ==
    /\ driver = "pipeline"
    /\ InitObjects
    /\ term = [width |-> PipeWidth, height |-> PipeHeight, resizePending |-> FALSE]

NextPipeline ==
    \/ \E data \in PipeFrames, encoded \in BOOLEAN :
          PipeTick(data, encoded)
    \/ \E c \in pipe.pending : PipeSettle(c)
    \/ \E ramp \in Ramps : PipeSetCharacterRamp(ramp)

SpecPipeline == InitPipeline /\ [][NextPipeline]_vars

InitConvert ==
    /\ driver = "convert"
    /\ InitObjects
    /\ term = [width |-> 1, height |-> 1, resizePending |-> FALSE]

NextConvert ==
    \/ /\ conv.call = "none"
       /\ \E b \in 0..255, L \in 2..MaxRamp : ConvBrightnessToChar(b, L)
    \/ /\ conv.call = "none"
       /\ \E w \in 1..MaxCols, h \in 1..MaxRows :
             \E f \in [1..(w * h) -> Shades] :
                ConvConvertToTerminal(Some(f), w, h, SharpRejects(0), FALSE)
    \/ /\ conv.call = "none"
       /\ \E w \in 1..MaxCols, h \in 1..MaxRows, n \in 1..MaxJpeg :
             \E d \in [1..(w * h) -> Shades] :
                /\ n # w * h
                /\ ConvConvertToTerminal(Some(Jpeg(n)), w, h, SharpResolves(d), TRUE)
    \/ /\ conv.call = "none"
       /\ \E w \in 0..MaxErrCols, h \in 0..MaxErrRows, m \in 0..MaxMsg :
             \E n \in 1..MaxJpeg :
                /\ n # w * h
                /\ ConvConvertToTerminal(Some(Jpeg(n)), w, h, SharpRejects(m), TRUE)
    \/ /\ conv.call = "none"
       /\ \E w \in 1..MaxCols, h \in 1..MaxRows :
             ConvConvertToTerminal(Null, w, h, SharpRejects(0), FALSE)
    \/ /\ conv.call = "none"
       /\ \E w \in 1..MaxCols, h \in 1..MaxRows :
             \E d \in [1..(w * h) -> Shades] :
                ConvConvertToTerminal(Some(EncodedImage(w * h)), w, h,
                                      SharpResolves(d), TRUE)
    \/ /\ conv.call = "none"
       /\ \E tw \in 0..MaxTermCols, th \in 0..MaxTermRows :
             ConvOptimalResolution(tw, th)

SpecConvert == InitConvert /\ [][NextConvert]_vars

(* The renderer under a direct client.  The capture has been initialized in  *)
(* hardware mode at w x h and has published one frame or none; the video   *)
(* box is 1 x 1, so a frame of another size goes to the image library.      *)

InitRender ==
    /\ driver = "renderer"
    /\ \E w \in Dims, h \in Dims, published \in BOOLEAN :
          LET s == HCInitializeEnd(
                       HCInitializeBegin(
                           [hc |-> HybridCaptureNew, ff |-> FFmpegCaptureNew,
                            procs |-> [p \in Pids |-> "none"],
                            wc |-> WebcamCaptureNew, loops |-> << >>], w, h),
                       TRUE, "alive")
          IN  /\ hc = s.hc
              /\ procs = s.procs
              /\ ff = IF published
                      THEN HandleFrameData(s.ff, Chunk(w * h)).ff
                      ELSE s.ff
    /\ hung = FALSE
    /\ wc = WebcamCaptureNew
    /\ loops = << >>
    /\ tr = TerminalRendererNew
    /\ inflight = 0
    /\ app = AppNew
    /\ demux = [fed |-> 0, frames |-> 0]
    /\ conv = ImageConverterNew
    /\ perf = PerfNew
    /\ pipe = PipeNew
    /\ timers = {}
    /\ op = Op("init", 0, 0)
    /\ term = [width |-> 1, height |-> 1, resizePending |-> FALSE]

NextRender ==
    \/ RStart
    \/ RStop
    \/ TimerFires
    \/ \E second \in BOOLEAN, throws \in ConversionThrows :
          ConversionDone(second, throws)

SpecRender == InitRender /\ [][NextRender]_vars

----------------------------------------------------------------------------
(* Properties of the demultiplexer and of the capture classes *)

\* C2: whenever _handleFrameData has finished handling a chunk, the carry-over
\* is shorter than one frame, width * height bytes.
C2_CarryOverBelowFrame ==
    (op.name = "data" /\ ~hung) =>
        Len(ff.incompleteBuffer) < ff.width * ff.height

\* a chunk arrived on top of a carry-over left at a larger resolution: its
\* handler published more than one frame and left a carry-over
C2_Witness ==
    /\ op.name = "data" /\ ~hung
    /\ op.b >= 2
    /\ ff.incompleteBuffer # << >>

\* C3: however a stream of exactly k * bytesPerFrame bytes is cut into chunks,
\* the demultiplexer has published exactly k frames and holds no carry-over
\* when the last chunk has been handled.
C3_FramesOfWholeStream ==
    (ff.bytesPerFrame > 0 /\ demux.fed % ff.bytesPerFrame = 0) =>
        /\ demux.frames * ff.bytesPerFrame = demux.fed
        /\ ff.incompleteBuffer = << >>

\* frames of 4 bytes, 8 bytes delivered with a last chunk of 5 (after 3)
C3_Witness ==
    /\ ff.bytesPerFrame = 4
    /\ op.name = "feed" /\ op.a = 5
    /\ demux.fed = 8 /\ demux.frames = 2

\* C4: in every state of the hardware source the frame getLatestFrame()
\* returns, when there is one, is width * height bytes long.
C4_FrameSlotConsistent ==
    (~hung /\ FFGetLatestFrame(ff) # Null) =>
        Len(FFGetLatestFrame(ff)[1]) = ff.width * ff.height

\* updateResolution has changed the resolution of a source whose subprocess
\* had exited, and getLatestFrame() still returns the frame of the old one
C4_Witness ==
    /\ ~hung
    /\ op.name \in {"ff.updateResolution", "hc.updateResolution"} /\ ~op.same
    /\ FFGetLatestFrame(ff) # Null
    /\ Len(FFGetLatestFrame(ff)[1]) # ff.width * ff.height

\* C5: a chunk emitted by a subprocess that stop() has killed is neither
\* appended to the carry-over nor published.
C5_NoChunkAfterStop ==
    [][(op'.name = "data" /\ ~hung' /\ procs[op'.a] = "killed") =>
           /\ ff'.incompleteBuffer = ff.incompleteBuffer
           /\ ff'.currentBuffer = ff.currentBuffer]_vars

\* updateResolution has replaced the subprocess, and a chunk of the killed
\* one has been published as a frame
C5_Witness ==
    /\ op.name = "data" /\ ~hung
    /\ procs[op.a] = "killed" /\ op.b >= 1
    /\ ff.ffmpeg # 0 /\ ff.ffmpeg # op.a /\ ff.isRunning

\* C6: when FFmpegCapture.stop() has returned no subprocess is attached, the
\* carry-over is empty and there is no frame.
C6_StoppedIsEmpty ==
    op.name = "ff.stop" =>
        /\ ff.ffmpeg = 0
        /\ ff.incompleteBuffer = << >>
        /\ ff.currentBuffer = Null

\* stop() was called after the subprocess had exited by itself: the
\* subprocess is still attached, with the carry-over and the frame
C6_Witness ==
    /\ op.name = "ff.stop"
    /\ ff.ffmpeg # 0 /\ procs[ff.ffmpeg] = "gone"
    /\ ff.incompleteBuffer # << >> /\ ff.currentBuffer # Null

\* C7: updateResolution called with the dimensions the object already has -
\* on HybridCapture, FFmpegCapture or WebcamCapture - changes nothing:
\* subprocesses, carry-over, frame, driver instance, loop and dimensions
\* are what they were.
C7_SameResolutionNoOp ==
    [][(/\ op'.name \in {"hc.updateResolution", "ff.updateResolution",
                         "wc.updateResolution"}
        /\ op'.same)
       => UNCHANGED << ff, procs, wc, loops, hc >>]_vars

\* the supervisor was asked for the resolution it has while its hardware
\* source is streaming, with a frame published and bytes carried over
C7_Witness ==
    /\ op.name = "hc.updateResolution" /\ op.same
    /\ hc.activeCapture = "ffmpeg" /\ ff.isRunning
    /\ procs[ff.ffmpeg] = "alive"
    /\ ff.currentBuffer # Null /\ ff.incompleteBuffer # << >>

\* C8: when HybridCapture.initialize resolves, it resolves to 'hardware' if
\* the probe succeeded and to 'software' otherwise; mode is the value
\* returned; the source of that mode has been started and is the active one;
\* the other source has not been started.
C8_InitializeSelectsSource ==
    op.name = "hc.initialized" =>
        /\ app.captureMode = (IF op.a = 1 THEN "hardware" ELSE "software")
        /\ hc.mode = app.captureMode
        /\ IF hc.mode = "hardware"
           THEN /\ hc.activeCapture = "ffmpeg"
                /\ ff.isRunning /\ ff.ffmpeg = 1 /\ procs[1] # "none"
                /\ ~hc.softwareCapture
                /\ ~wc.continuousMode /\ ~wc.captureLoopRunning
                /\ loops = << >>
           ELSE /\ hc.activeCapture = "software"
                /\ hc.softwareCapture
                /\ wc.continuousMode /\ wc.captureLoopRunning
                /\ LoopCount(loops) = 1 /\ Len(loops) = 1
                /\ ~ff.isRunning /\ ff.ffmpeg = 0
                /\ \A p \in Pids : procs[p] = "none"

\* the probe failed and initialize resolved to the software source
C8_Witness ==
    /\ op.name = "hc.initialized" /\ op.a = 0
    /\ hc.mode = "software"
    /\ loops = << Activation("capture") >>

\* C9: once initialize has resolved, mode is never assigned again.
C9_ModeNeverChanges ==
    [][hc.mode # "null" => hc.mode' = hc.mode]_vars

\* the hardware source lost its subprocess and was then restarted by
\* updateResolution with a spawn that failed: the mode is still 'hardware'
C9_Witness ==
    /\ hc.mode = "hardware"
    /\ op.name = "hc.updateResolution" /\ ~op.same
    /\ procs[1] = "gone" /\ procs[2] = "failed"

----------------------------------------------------------------------------
(* Properties of the render scheduler in the whole program *)

NoFramePublished ==
    /\ hc.activeCapture = "ffmpeg" => ff.currentBuffer = Null
    /\ hc.activeCapture = "software" => wc.lastFrameBuffer = Null

\* C10: a tick that runs while no frame has been published gets absence from
\* getLatestFrame(), invokes neither onFrame nor onStats, and leaves the
\* timer of the next tick armed.
C10_TickWithoutFrame ==
    (op.name = "tick" /\ NoFramePublished) =>
        /\ HCGetLatestFrame(CS) = Null
        /\ ~op.onFrame /\ ~op.onStats
        /\ tr.isRunning => tr.timeoutId \in timers

\* a tick ran before the streaming subprocess had delivered a whole frame
C10_Witness ==
    /\ op.name = "tick" /\ NoFramePublished
    /\ tr.isRunning /\ tr.timeoutId \in timers
    /\ hc.activeCapture = "ffmpeg" /\ ff.incompleteBuffer # << >>

\* C11: acquisition on the software source is mutually exclusive.  At most
\* one request to the still-image driver is outstanding at any time, whatever
\* the interleaving of startContinuousCapture, stopContinuousCapture,
\* updateResolution, captureFrame and the completions, and captureInProgress
\* is set while one is; a pass of the loop that finds one outstanding while
\* the continuous mode is on issues nothing and changes nothing.
C11_AcquisitionExclusive ==
    /\ [](Outstanding(loops) <= 1
          /\ (Outstanding(loops) = 1 => wc.captureInProgress))
    /\ [][(op'.name = "loopYield" /\ Outstanding(loops) > 0
                /\ wc.continuousMode)
            => (op'.b = 1 /\ wc' = wc
                  /\ Outstanding(loops') = Outstanding(loops))]_vars

\* a pass of the loop has skipped while a captureFrame() request was
\* outstanding
C11_Witness ==
    /\ op.name = "loopYield" /\ op.b = 1
    /\ wc.continuousMode
    /\ \E i \in 1..Len(loops) : loops[i].pc = "shot"

\* C12: after stopContinuousCapture() the loop that was running sees the
\* flag at the top of its next pass and returns on that pass, issuing no
\* further request: a pass of an activation that has been stopped is its
\* last (stated for an initialized WebcamCapture).
C12_StoppedLoopExits ==
    (op.name = "loopYield" /\ op.a = 1 /\ wc.isInitialized) => op.b = 0

\* a stopped activation has reached the top of the loop and returned
C12_Witness ==
    /\ op.name = "loopYield" /\ op.a = 1 /\ op.b = 0
    /\ ~wc.continuousMode

\* a completion in the loop that reports a failure: the driver callback with
\* an error, or fs.readFile rejecting
LoopAcquisitionFails ==
    \/ op'.name = "captureDone" /\ op'.a = 0
    \/ op'.name = "readDone" /\ op'.a = 0

\* C13: a failed acquisition in the software loop (driver error, or failure
\* to load the bytes) does not end the loop and leaves the frame slot as it
\* was: getLatestFrame() returns what it returned before, captureInProgress
\* is cleared, nothing else of the object changes, and the activation is
\* left waiting for its next pass, which issues a new request when the
\* continuous mode is still on and no other acquisition is outstanding.
C13_FailureKeepsLoopAndFrame ==
    /\ [][LoopAcquisitionFails
        => /\ WCGetLatestFrame(wc') = WCGetLatestFrame(wc)
           /\ wc' = [wc EXCEPT !.captureInProgress = FALSE]
           /\ Len(loops') = Len(loops)
           /\ LoopCount(loops') = LoopCount(loops)
           /\ Outstanding(loops') = Outstanding(loops) - 1
           /\ \E i \in 1..Len(loops) :
                 /\ loops[i].pc \in {"capture", "read"}
                 /\ loops'[i].pc = "yield"]_vars
    /\ [][(op'.name = "loopYield" /\ wc.continuousMode
              /\ ~wc.captureInProgress /\ wc.webcam # Null)
            => (op'.b = 2 /\ wc'.captureInProgress)]_vars

\* fs.readFile has failed in the loop while a frame was published
C13_Witness ==
    /\ op.name = "readDone" /\ op.a = 0
    /\ wc.lastFrameBuffer # Null
    /\ wc.continuousMode /\ ~wc.captureInProgress
    /\ \E i \in 1..Len(loops) : loops[i].pc = "yield"

\* C14: WebcamCapture.updateResolution with changed dimensions stops the
\* loop, reconfigures and restarts it, so that no acquisition requested with
\* the old parameters publishes a frame after the call has returned: no
\* completion of a request issued before the call stores a frame.
C14_NoStalePublication ==
    ~(op.name = "readDone" /\ op.a > 0 /\ op.b = 1)

\* updateResolution has changed the dimensions while a request issued with
\* the old ones was outstanding
C14_Witness ==
    /\ op.name = "wc.updateResolution" /\ ~op.same
    /\ wc.continuousMode /\ wc.captureLoopRunning
    /\ \E i \in 1..Len(loops) : loops[i].pc = "capture" /\ loops[i].stale

\* C15: when the hardware subprocess exits or fails to spawn, the hardware
\* source becomes not-running and spawns nothing by itself: the 'close' and
\* 'error' handlers clear isRunning, start no subprocess, leave the published
\* frame as it was and change nothing of the supervisor, the renderer, its
\* timers or the application; a subprocess is only ever spawned by a start
\* (initialize of the supervisor included) or by an updateResolution that
\* changes the dimensions.
C15_ExitStopsWithoutRestart ==
    /\ [][op'.name \in {"close", "error"}
            => /\ ~ff'.isRunning
               /\ NextPid(procs') = NextPid(procs)
               /\ \A p \in Pids : procs'[p] = "alive" => procs[p] = "alive"
               /\ FFGetLatestFrame(ff') = FFGetLatestFrame(ff)
               /\ ff' = [ff EXCEPT !.isRunning = FALSE]
               /\ hc' = hc /\ tr' = tr /\ timers' = timers
               /\ inflight' = inflight /\ app' = app
               /\ wc' = wc /\ loops' = loops]_vars
    /\ [][NextPid(procs') # NextPid(procs)
            => \/ op'.name \in {"ff.start", "hc.initialized", "app.initialized",
                               "app.startFailed"}
               \/ /\ op'.name \in {"ff.updateResolution", "hc.updateResolution"}
                  /\ ~op'.same]_vars

\* the streaming subprocess has exited under a running renderer while a
\* frame was published
C15_Witness ==
    /\ op.name = "close"
    /\ hc.mode = "hardware" /\ ~ff.isRunning
    /\ ff.currentBuffer # Null
    /\ tr.isRunning /\ tr.timeoutId \in timers
    /\ \A p \in Pids : procs[p] # "alive"

\* C16: HybridCapture.cleanup() stops whichever source is active, from every
\* state: once cleanup has resolved no subprocess started by the supervisor
\* is alive, the continuous mode of the software source is off and no
\* acquisition loop is past the top of a new pass.
C16_CleanupStopsSources ==
    (driver = "hybrid" /\ app.pc = "cleaned")
        => /\ \A p \in Pids : procs[p] # "alive"
           /\ ~wc.continuousMode

\* cleanup has resolved after the supervisor had started a subprocess
C16_Witness ==
    /\ driver = "hybrid" /\ app.pc = "cleaned"
    /\ op.name = "hc.cleanup"
    /\ hc.mode = "hardware"
    /\ \E p \in Pids : procs[p] = "killed"

\* C17: for every brightness b in 0..255 and every ramp of L >= 2 glyphs the
\* index selected is floor(b / 255 * (L - 1)), lies in 0..L-1 and does not
\* decrease with b; with the ramp ' ░▒▓█', 0 gives ' ', 128 gives '▒'
\* (index 2) and 255 gives '█'.  (conv.w is the brightness passed.)
C17_GlyphIndexIsFloor ==
    conv.call = "brightnessToChar" =>
        /\ conv.index = (conv.w * (Len(conv.ramp) - 1)) \div 255
        /\ conv.index \in 0..(Len(conv.ramp) - 1)
        /\ \A b \in 0..conv.w :
              BrightnessIndex(b, Len(conv.ramp)) <= conv.index
        /\ conv.ramp = DefaultRamp =>
              /\ conv.w = 0 => conv.out = << 32 >>
              /\ conv.w = 128 => (conv.index = 2 /\ conv.out = << 9618 >>)
              /\ conv.w = 255 => conv.out = << 9608 >>

\* brightness 128 has been mapped with the ramp ' ░▒▓█'
C17_Witness ==
    /\ conv.call = "brightnessToChar"
    /\ conv.w = 128 /\ conv.ramp = DefaultRamp
    /\ conv.index = 2 /\ conv.out = << 9618 >>

\* the rows of a text: what stands between its row separators
RECURSIVE SplitRows(_)
SplitRows(text) ==
    IF \A i \in 1..Len(text) : text[i] # NL
    THEN << text >>
    ELSE LET i == CHOOSE j \in 1..Len(text) :
                     text[j] = NL /\ \A k \in 1..(j - 1) : text[k] # NL
         IN  << SubSeq(text, 1, i - 1) >>
                 \o SplitRows(SubSeq(text, i + 1, Len(text)))

\* C18: for a raw frame of exactly width * height bytes the output of
\* convertToTerminal is height rows of width glyphs each, glyph x of row y
\* being the glyph of byte y * width + x, the rows joined by one separator
\* and no separator at the end.
C18_RawFrameIsGrid ==
    (conv.call = "convertToTerminal" /\ conv.frame # Null
        /\ Len(conv.frame[1]) = conv.w * conv.h)
    => LET rows == SplitRows(conv.out)
       IN  /\ Len(rows) = conv.h
           /\ Len(conv.out) = conv.w * conv.h + (conv.h - 1)
           /\ \A y \in 1..conv.h :
                 /\ Len(rows[y]) = conv.w
                 /\ \A x \in 1..conv.w :
                       rows[y][x] =
                           BrightnessToChar(conv.frame[1][(y - 1) * conv.w + x],
                                            conv.ramp)

\* a raw frame of 2 by 2 pixels has been converted
C18_Witness ==
    /\ conv.call = "convertToTerminal"
    /\ conv.w = 2 /\ conv.h = 2
    /\ conv.frame = Some(<< 0, 128, 255, 0 >>)
    /\ conv.out = << 32, 9618, 10, 9608, 32 >>

\* the rows of a text whose last row may be ended by a separator
GridRows(text) ==
    LET rows == SplitRows(text)
    IN  IF Len(rows) > 1 /\ rows[Len(rows)] = << >>
        THEN SubSeq(rows, 1, Len(rows) - 1)
        ELSE rows

\* the image library has been called and has rejected
ConversionFailed ==
    /\ conv.call = "convertToTerminal" /\ conv.frame # Null
    /\ Len(conv.frame[1]) # conv.w * conv.h
    /\ ~conv.lib.ok

\* C19: when decoding or resizing fails, convertToTerminal returns a
\* placeholder grid of exactly height rows of width glyphs, for every width,
\* height and message length.
C19_ErrorFrameIsGrid ==
    (ConversionFailed /\ conv.w > 0 /\ conv.h > 0)
    => /\ Len(GridRows(conv.out)) = conv.h
       /\ \A y \in 1..Len(GridRows(conv.out)) :
             Len(GridRows(conv.out)[y]) = conv.w

\* a conversion has failed with a message that fits the width: the
\* placeholder holds the message after one space of padding
C19_Witness ==
    /\ ConversionFailed
    /\ conv.w = 12 /\ conv.h = 3 /\ conv.lib.msg = 3
    /\ conv.out = << 10, 32, 69, 82, 82, 79, 82, 58, 32, 120, 120, 120, 10, 10 >>

\* a tick, or the continuation of one after its await, has just ended in the
\* catch block of _captureAndRender
Threw == op.name \in {"tick", "conversionDone"} /\ op.a = 2

----------------------------------------------------------------------------
(* Properties of the renderer under a direct client *)

\* C21: TerminalRenderer.stop() cancels the pending tick and is idempotent.
\* stop() leaves the renderer not running with no timer pending, and none is
\* pending while it is not running, so that a tick only ever begins while
\* the renderer runs; stop() on a renderer that is not running (stopped
\* already, or never started) changes nothing of the renderer, its timers
\* and the conversions in flight.
C21_StopCancelsAndIsIdempotent ==
    /\ [](~tr.isRunning => (timers = {} /\ tr.timeoutId = 0))
    /\ [][op'.name = "tr.stop" => (~tr'.isRunning /\ timers' = {})]_vars
    /\ [][(op'.name = "tick" /\ op' # op) => tr.isRunning]_vars
    /\ [][(op'.name = "tr.stop" /\ ~tr.isRunning)
            => (tr' = tr /\ timers' = timers /\ inflight' = inflight)]_vars

\* stop() has been called again on a renderer that had been started and
\* stopped
C21_Witness ==
    /\ op.name = "tr.stop" /\ op.same
    /\ ~tr.isRunning /\ timers = {}
    /\ inflight > 0

\* C22: after stop() has returned, a conversion that was in flight when
\* stop() was called completes and its result is discarded: the continuation
\* of a tick that runs while the renderer is not running invokes neither
\* onFrame nor onStats.
C22_NoCallbackAfterStop ==
    (op.name = "conversionDone" /\ ~tr.isRunning)
        => (~op.onFrame /\ ~op.onStats)

\* stop() has returned while a conversion was awaited
C22_Witness ==
    /\ op.name = "tr.stop" /\ ~op.same
    /\ ~tr.isRunning /\ inflight > 0

----------------------------------------------------------------------------
(* Further properties of the whole program and of the capture objects *)

\* C23: if FFmpeg is installed but the hardware capture cannot run, so that
\* the streaming subprocess fails to start or exits, the capture manager
\* falls back to software mode: once the subprocess of a manager in hardware
\* mode has failed or exited, the manager gets to software mode (unless the
\* program exits first).
C23_FallsBackToSoftware ==
    (hc.mode = "hardware" /\ op.name \in {"close", "error"} /\ ~ff.isRunning)
        ~> (hc.mode = "software" \/ app.pc = "exited")

\* the streaming subprocess of the running program has failed to start
C23_Witness ==
    /\ op.name = "error"
    /\ hc.mode = "hardware" /\ hc.activeCapture = "ffmpeg"
    /\ app.pc = "running" /\ app.captureMode = "hardware"
    /\ ~ff.isRunning /\ \A p \in Pids : procs[p] # "alive"

\* C24: with the default ramp ' ░▒▓█' the converter maps brightness 0 to
\* ' ', 64 to '░', 128 to '▒', 191 to '▓' and 255 to '█'.
C24_DefaultRampMapping ==
    (conv.call = "brightnessToChar" /\ conv.ramp = DefaultRamp)
        => /\ conv.w = 0 => conv.out = << 32 >>
           /\ conv.w = 64 => conv.out = << 9617 >>
           /\ conv.w = 128 => conv.out = << 9618 >>
           /\ conv.w = 191 => conv.out = << 9619 >>
           /\ conv.w = 255 => conv.out = << 9608 >>

\* brightness 64 has been mapped to '░' with the default ramp
C24_Witness ==
    /\ conv.call = "brightnessToChar" /\ conv.ramp = DefaultRamp
    /\ conv.w = 64 /\ conv.index = 1 /\ conv.out = << 9617 >>

\* C25: quit() is idempotent and shuts down in order.  A quit() of the
\* running application stops the renderer and begins the cleanup of the
\* capture at once; the screen is destroyed and the process exits only once
\* the cleanup has resolved; a quit() issued when isRunning is false - the
\* first one is awaiting the cleanup, or nothing was started - changes
\* nothing; and once quit() has begun no frame and no statistics are
\* written to the screen.
C25_QuitOnceInOrder ==
    /\ [][(op'.name = "app.quit" /\ app.isRunning)
            => /\ ~app'.isRunning /\ app'.pc \in {"quitting", "exited"}
               /\ ~tr'.isRunning /\ timers' = {}
               /\ ~wc'.continuousMode
               /\ ff.isRunning => (~ff'.isRunning /\ procs'[ff.ffmpeg] # "alive")]_vars
    /\ [](app.pc = "exited" => (hc.activeCapture = "null" /\ ~tr.isRunning))
    /\ [](app.pc = "quitting" => (~app.isRunning /\ ~tr.isRunning))
    /\ [][(op'.name = "app.quit" /\ ~app.isRunning)
            => UNCHANGED << app, tr, timers, inflight, hc, ff, procs, wc,
                            loops, term >>]_vars
    /\ []((app.pc \in {"quitting", "exited"} /\ op.name # "app.quit")
            => (~op.video /\ ~op.stats))

\* a conversion awaited when quit() began has completed while quit() was
\* awaiting the cleanup: the renderer has invoked onFrame and nothing was
\* written
C25_Witness ==
    /\ app.pc = "quitting"
    /\ op.name = "conversionDone" /\ op.onFrame /\ ~op.video

\* C26: getOptimalCaptureResolution(tw, th) returns min(6 tw, 1024) and
\* min(6 th, 576), each rounded down to an even number: for all tw, th >= 0
\* both are even, the width is at most 1024 and the height at most 576;
\* 100x25 gives 600x150, 120x30 gives 720x180 and 80x20 gives 480x120.
C26_OptimalResolution ==
    conv.call = "getOptimalCaptureResolution" =>
        LET mw == IF 6 * conv.w <= 1024 THEN 6 * conv.w ELSE 1024
            mh == IF 6 * conv.h <= 576 THEN 6 * conv.h ELSE 576
        IN  /\ conv.out[1] % 2 = 0 /\ conv.out[2] % 2 = 0
            /\ conv.out[1] \in {mw, mw - 1} /\ conv.out[2] \in {mh, mh - 1}
            /\ conv.out[1] <= 1024 /\ conv.out[2] <= 576
            /\ (conv.w = 100 /\ conv.h = 25) => conv.out = << 600, 150 >>
            /\ (conv.w = 120 /\ conv.h = 30) => conv.out = << 720, 180 >>
            /\ (conv.w = 80 /\ conv.h = 20) => conv.out = << 480, 120 >>

\* a terminal wider and higher than the caps has been asked for
C26_Witness ==
    /\ conv.call = "getOptimalCaptureResolution"
    /\ conv.w = 171 /\ conv.h = 97
    /\ conv.out = << 1024, 576 >>

\* C27: the hardware source owns at most one live subprocess: under every
\* interleaving of start, stop, updateResolution and the events of earlier
\* subprocesses, no step spawns a subprocess while another one, which has
\* neither been signalled nor exited, is alive and feeding the carry-over.
C27_OneLiveSubprocess ==
    [][\A p \in Pids :
         (procs[p] = "none" /\ procs'[p] = "alive")
             => \A q \in Pids \ {p} : procs'[q] # "alive"]_vars

\* start() has spawned a subprocess next to one that is alive
C27_Witness ==
    /\ op.name = "ff.start"
    /\ ff.isRunning
    /\ \E q \in Pids : q # ff.ffmpeg /\ procs[q] = "alive"

\* C28: the running flag tracks the current subprocess: in every reachable
\* state isCapturing() is true exactly when the most recently spawned
\* subprocess has neither exited nor been stopped (a spawn that failed counts
\* as running until its 'error' event); a late 'close' or 'error' of a
\* subprocess that has been replaced does not clear the flag.
C28_RunningTracksCurrent ==
    LET last == NextPid(procs) - 1
    IN  /\ (last > 0 /\ procs[last] = "alive") => ff.isRunning
        /\ ff.isRunning => (last > 0 /\ procs[last] \in {"alive", "failed"})

\* the 'close' event of a replaced subprocess has been handled while its
\* replacement is alive
C28_Witness ==
    /\ op.name = "close"
    /\ NextPid(procs) > 2
    /\ procs[NextPid(procs) - 1] = "alive"
    /\ \E q \in Pids : q < NextPid(procs) - 1 /\ procs[q] = "gone"

\* C29: the frame slot is last-writer-wins: when chunks totalling T bytes
\* have been handled with frame length F > 0, getLatestFrame() is absent if
\* T < F and is otherwise bytes [(n-1)*F, n*F) of the concatenated stream,
\* n = floor(T / F); no earlier frame is kept.
C29_LatestFrameOfStream ==
    (driver = "demux" /\ ff.bytesPerFrame > 0) =>
        LET F == ff.bytesPerFrame
            n == demux.fed \div F
        IN  IF demux.fed < F
            THEN FFGetLatestFrame(ff) = Null
            ELSE FFGetLatestFrame(ff) =
                     Some([i \in 1..F |-> ((n - 1) * F + i) % 256])

\* frames of 2 bytes: a chunk of 4 bytes after one of 3 completes the second
\* frame with the carry-over, and the third is the one kept
C29_Witness ==
    /\ driver = "demux" /\ ff.bytesPerFrame = 2
    /\ op.name = "feed" /\ op.a = 4
    /\ demux.fed = 7 /\ demux.frames = 3
    /\ FFGetLatestFrame(ff) = Some(<< 5, 6 >>)

\* C30: in hardware mode, whenever a tick of the render scheduler converts a
\* frame, the frame is width * height bytes long for the dimensions the
\* dimension provider returns to that tick, and the conversion takes the
\* byte-to-glyph path, never the decode/resize path.  (Stated for the ticks
\* that run when every terminal resize has been handled by the 'resize'
\* handler; the claim is for every interleaving.)
C30_HardwareFrameMatchesDimensions ==
    (op.name = "tick" /\ op.a = 1 /\ hc.mode = "hardware"
                      /\ ~term.resizePending) =>
        /\ HCGetLatestFrame(CS) # Null
        /\ Len(HCGetLatestFrame(CS)[1]) = term.width * term.height
        /\ op.onFrame

\* a tick has converted a frame of the hardware source after a resize of the
\* terminal was handled
C30_Witness ==
    /\ op.name = "tick" /\ op.a = 1 /\ hc.mode = "hardware"
    /\ ~term.resizePending
    /\ << hc.width, hc.height >> # << 1, 1 >>
    /\ HCGetLatestFrame(CS) # Null

\* C31: the converter takes the direct byte-to-glyph path exactly when the
\* frame is a raw grayscale frame of width * height bytes; an encoded image
\* of the software source is always decoded and resized, whatever its
\* length in bytes.
C31_PathFollowsRepresentation ==
    (conv.call = "convertToTerminal" /\ conv.frame # Null) =>
        /\ conv.path = "raw"
               <=> (~conv.encoded /\ Len(conv.frame[1]) = conv.w * conv.h)
        /\ conv.encoded => conv.path = "sharp"

\* an encoded image as long as the terminal has cells has been converted
C31_Witness ==
    /\ conv.call = "convertToTerminal"
    /\ conv.encoded
    /\ conv.w = 2 /\ conv.h = 1
    /\ conv.frame = Some(<< 255, 216 >>)
    /\ conv.lib.data = << 0, 0 >>

\* C32: when the source restarted by a resolution change fails to start (its
\* subprocess cannot be spawned), HybridCapture.updateResolution surfaces
\* the failure to its caller synchronously, from the call itself.
C32_UpdateSurfacesFailure ==
    (op.name = "hc.updateResolution" /\ ~op.same
        /\ hc.activeCapture = "ffmpeg"
        /\ ff.ffmpeg # 0 /\ procs[ff.ffmpeg] = "failed")
    => op.threw

\* updateResolution has returned after restarting the hardware source with
\* a subprocess that could not be spawned
C32_Witness ==
    /\ driver = "hybrid" /\ hc.mode = "hardware"
    /\ op.name = "hc.updateResolution" /\ ~op.same
    /\ ff.isRunning /\ ff.ffmpeg = 2
    /\ procs = << "killed", "failed", "none" >>

\* C33: the performance accumulators are reported and reset every 100
\* samples: in every reachable state the sample count is at most 100, and
\* each report averages exactly the last 100 samples, for every sequence of
\* delivered frames and logging toggles.
C33_AccumulatorsResetEveryPeriod ==
    /\ perf.sampleCount <= PerfPeriod
    /\ perf.reported \in {0, PerfPeriod}

\* logging was switched on after the hundredth sample and the report at the
\* two-hundredth averages over 200 samples
C33_Witness ==
    /\ op.name = "tr.trackPerformance"
    /\ perf.enablePerfLogging
    /\ perf.reported = 2 * PerfPeriod
    /\ perf.sampleCount = 0

\* the grid delivered as e is, glyph by glyph, the pixels of e mapped
\* through the one ramp r
BuiltFrom(e, r) ==
    LET rows == SplitRows(e.grid)
    IN  /\ Len(rows) = PipeHeight
        /\ \A y \in 1..PipeHeight :
              /\ Len(rows[y]) = PipeWidth
              /\ \A x \in 1..PipeWidth :
                    rows[y][x] =
                        BrightnessToChar(e.data[(y - 1) * PipeWidth + x], r)

\* C34: setCharacterRamp(ramp) takes effect on the next conversion, and
\* every grid delivered is built from a single ramp: a change of the ramp
\* between ticks or while a conversion is in flight never gives a grid that
\* mixes the glyphs, or the index range, of two ramps.
C34_GridFromOneRamp ==
    /\ \A i \in 1..Len(pipe.delivered) :
          \E r \in Ramps : BuiltFrom(pipe.delivered[i], r)
    /\ (op.name = "conversionDone" \/ (op.name = "tick" /\ op.b = 0))
          => BuiltFrom(pipe.delivered[Len(pipe.delivered)], pipe.ramp)

\* the ramp was changed while the conversion of tick 1 was in flight: the
\* grid of tick 2 was delivered with the default ramp, that of tick 1 after
\* it with the other ramp
C34_Witness ==
    /\ op.name = "conversionDone" /\ op.a = 1
    /\ Len(pipe.delivered) = 2
    /\ pipe.delivered[1].tick = 2
    /\ pipe.delivered[1].grid = << 32, 9608 >>
    /\ pipe.delivered[2].tick = 1
    /\ pipe.delivered[2].grid = << 65, 66 >>

\* C37: grids are delivered to onFrame in tick order: when the conversions
\* of several ticks overlap, a grid made from the frame read at an earlier
\* tick is never delivered after a grid made from a frame read at a later
\* tick.
C37_DeliveredInTickOrder ==
    \A i, j \in 1..Len(pipe.delivered) :
        i < j => pipe.delivered[i].tick < pipe.delivered[j].tick

\* two conversions overlapped and both grids have been delivered
C37_Witness ==
    /\ op.name = "conversionDone"
    /\ pipe.ticks = 2 /\ pipe.pending = {}
    /\ Len(pipe.delivered) = 2
    /\ op.a = pipe.delivered[2].tick

\* C35: at most one acquisition loop of the software source is active at any
\* time: whatever the sequence of startContinuousCapture and
\* stopContinuousCapture calls and in-flight acquisitions (a stop followed
\* at once by a start included), no second _runCaptureLoop runs while one
\* that has not returned is still there.
C35_OneAcquisitionLoop ==
    LoopCount(loops) <= 1

\* startContinuousCapture() has started a loop next to one that was stopped
\* and has not returned
C35_Witness ==
    /\ op.name = "wc.startContinuousCapture"
    /\ wc.continuousMode /\ wc.captureLoopRunning
    /\ LoopCount(loops) = 2
    /\ loops[1].stopped /\ ~loops[2].stopped

\* C36: once WebcamCapture.cleanup() has resolved the frame slot of the
\* software source is empty and stays empty: an acquisition that was in
\* flight when cleanup was called publishes no frame afterwards.
C36_SlotEmptyAfterCleanup ==
    (driver = "hybrid" /\ hc.softwareCapture /\ app.pc = "cleaned")
        => WCGetLatestFrame(wc) = Null

\* cleanup() has resolved while an acquisition of the stopped loop was still
\* in flight
C36_Witness ==
    /\ driver = "hybrid" /\ hc.softwareCapture /\ app.pc = "cleaned"
    /\ op.name = "hc.cleanupDone"
    /\ \E i \in 1..Len(loops) :
          loops[i].pc \in {"capture", "read"} /\ loops[i].stopped

\* C38: in every reachable state of the render scheduler at most one tick
\* timer is pending, and exactly one while it is running, for every sequence
\* of start, stop, restart and ticks (start called twice and stop followed
\* by start while a conversion is in flight included).
C38_OneTickTimer ==
    /\ Cardinality(timers) <= 1
    /\ tr.isRunning => timers = {tr.timeoutId}
    /\ ~tr.isRunning => timers = {}

\* the renderer was stopped and started again while a conversion was in
\* flight
C38_Witness ==
    /\ driver = "renderer"
    /\ op.name = "tr.start" /\ ~op.same
    /\ inflight > 0
    /\ tr.isRunning /\ Cardinality(timers) = 1

\* C39: processing a chunk terminates: _handleFrameData returns after
\* finitely many frame extractions for every value bytesPerFrame can have,
\* that of a source started before initialize() (0) included.
C39_ChunkHandlingTerminates ==
    op.name = "data" => ~hung

\* a chunk has arrived from a subprocess started before initialize()
C39_Witness ==
    /\ driver = "ffmpeg"
    /\ op.name = "data"
    /\ ff.bytesPerFrame = 0
    /\ ff.incompleteBuffer # << >>

\* C40: when a step of start() throws, the application goes through its quit
\* sequence (renderer stopped, capture cleaned up) and the process exits with
\* code 1: after the failure quit(1) is past its guard or has exited.
C40_StartFailureQuitsWithOne ==
    op.name = "app.startFailed" =>
        (app.pc \in {"quitting", "exited"} /\ app.exitCode = 1)

\* a step before isRunning = true has thrown: quit(1) returned at its guard
C40_Witness ==
    /\ op.name = "app.startFailed"
    /\ app.pc = "failed"
    /\ ~app.isRunning
    /\ app.exitCode = -1

====
